---- MODULE Spec2Model ----
(***************************************************************************)
(* Model of the Web3 DApp front end: the transaction-lifecycle hooks       *)
(* (useSendTransaction, useContractWrite), the transfer forms, the Counter *)
(* panel, the wallet-session accessor useWallet with its persisted         *)
(* LastConnected snapshot, the error classifier parseWeb3Error and the     *)
(* formatting/validation helpers.                                          *)
(*                                                                         *)
(* Text is modelled as sequences of one-character strings so that          *)
(* lower-casing, substring search and pattern extraction are computed and  *)
(* not assumed.                                                            *)
(***************************************************************************)
EXTENDS Integers, Sequences, FiniteSets, TLC

----------------------------------------------------------------------------
(* Text constants: the literals of errors.ts, the sample failure messages  *)
(* a wallet / RPC endpoint produces, and the sample form inputs.           *)

\* 'user rejected'
P_user_rejected == <<"u","s","e","r"," ","r","e","j","e","c","t","e","d">>
\* 'user denied'
P_user_denied == <<"u","s","e","r"," ","d","e","n","i","e","d">>
\* 'user cancelled'
P_user_cancelled == <<"u","s","e","r"," ","c","a","n","c","e","l","l","e","d">>
\* 'insufficient funds'
P_insufficient_funds == <<"i","n","s","u","f","f","i","c","i","e","n","t"," ","f","u","n","d","s">>
\* 'insufficient balance'
P_insufficient_balance == <<"i","n","s","u","f","f","i","c","i","e","n","t"," ","b","a","l","a","n","c","e">>
\* 'network'
P_network == <<"n","e","t","w","o","r","k">>
\* 'timeout'
P_timeout == <<"t","i","m","e","o","u","t">>
\* 'fetch'
P_fetch == <<"f","e","t","c","h">>
\* 'revert'
P_revert == <<"r","e","v","e","r","t">>
\* 'execution reverted'
P_execution_reverted == <<"e","x","e","c","u","t","i","o","n"," ","r","e","v","e","r","t","e","d">>
\* 'reason="'
P_reason_open == <<"r","e","a","s","o","n","=","\"">>
\* 'gas'
P_gas == <<"g","a","s">>
\* 'invalid address'
P_invalid_address == <<"i","n","v","a","l","i","d"," ","a","d","d","r","e","s","s">>
\* 'nonce'
P_nonce == <<"n","o","n","c","e">>
\* 'An unknown error occurred'
S_UnknownError == <<"A","n"," ","u","n","k","n","o","w","n"," ","e","r","r","o","r"," ","o","c","c","u","r","r","e","d">>
\* 'Transaction was rejected by user'
S_Rejected == <<"T","r","a","n","s","a","c","t","i","o","n"," ","w","a","s"," ","r","e","j","e","c","t","e","d"," ","b","y"," ","u","s","e","r">>
\* 'Insufficient funds for this transaction'
S_Insufficient == <<"I","n","s","u","f","f","i","c","i","e","n","t"," ","f","u","n","d","s"," ","f","o","r"," ","t","h","i","s"," ","t","r","a","n","s","a","c","t","i","o","n">>
\* 'Network error. Please check your connection and try again'
S_Network == <<"N","e","t","w","o","r","k"," ","e","r","r","o","r","."," ","P","l","e","a","s","e"," ","c","h","e","c","k"," ","y","o","u","r"," ","c","o","n","n","e","c","t","i","o","n"," ","a","n","d"," ","t","r","y"," ","a","g","a","i","n">>
\* 'Contract error: '
S_ContractErrorPrefix == <<"C","o","n","t","r","a","c","t"," ","e","r","r","o","r",":"," ">>
\* 'Transaction reverted. Please check contract conditions'
S_Reverted == <<"T","r","a","n","s","a","c","t","i","o","n"," ","r","e","v","e","r","t","e","d","."," ","P","l","e","a","s","e"," ","c","h","e","c","k"," ","c","o","n","t","r","a","c","t"," ","c","o","n","d","i","t","i","o","n","s">>
\* 'Transaction may fail or exceed gas limit. Try adjusting gas settings'
S_Gas == <<"T","r","a","n","s","a","c","t","i","o","n"," ","m","a","y"," ","f","a","i","l"," ","o","r"," ","e","x","c","e","e","d"," ","g","a","s"," ","l","i","m","i","t","."," ","T","r","y"," ","a","d","j","u","s","t","i","n","g"," ","g","a","s"," ","s","e","t","t","i","n","g","s">>
\* 'Invalid address provided'
S_InvalidAddress == <<"I","n","v","a","l","i","d"," ","a","d","d","r","e","s","s"," ","p","r","o","v","i","d","e","d">>
\* 'Transaction nonce error. Please try again'
S_Nonce == <<"T","r","a","n","s","a","c","t","i","o","n"," ","n","o","n","c","e"," ","e","r","r","o","r","."," ","P","l","e","a","s","e"," ","t","r","y"," ","a","g","a","i","n">>
\* 'An unexpected error occurred'
S_Unexpected == <<"A","n"," ","u","n","e","x","p","e","c","t","e","d"," ","e","r","r","o","r"," ","o","c","c","u","r","r","e","d">>
\* 'Chain switching not supported by current connector'
S_SwitchNotSupported == <<"C","h","a","i","n"," ","s","w","i","t","c","h","i","n","g"," ","n","o","t"," ","s","u","p","p","o","r","t","e","d"," ","b","y"," ","c","u","r","r","e","n","t"," ","c","o","n","n","e","c","t","o","r">>
\* 'User rejected the request.'
MsgUserRejected == <<"U","s","e","r"," ","r","e","j","e","c","t","e","d"," ","t","h","e"," ","r","e","q","u","e","s","t",".">>
\* 'execution reverted: reason="Counter: underflow"'
MsgRevertUnderflow == <<"e","x","e","c","u","t","i","o","n"," ","r","e","v","e","r","t","e","d",":"," ","r","e","a","s","o","n","=","\"","C","o","u","n","t","e","r",":"," ","u","n","d","e","r","f","l","o","w","\"">>
\* 'insufficient funds for gas * price + value'
MsgInsufficient == <<"i","n","s","u","f","f","i","c","i","e","n","t"," ","f","u","n","d","s"," ","f","o","r"," ","g","a","s"," ","*"," ","p","r","i","c","e"," ","+"," ","v","a","l","u","e">>
\* 'Internal JSON-RPC error.'
MsgRpc == <<"I","n","t","e","r","n","a","l"," ","J","S","O","N","-","R","P","C"," ","e","r","r","o","r",".">>
\* 'Counter: underflow'
ReasonUnderflow == <<"C","o","u","n","t","e","r",":"," ","u","n","d","e","r","f","l","o","w">>
\* '0x1234567890123456789012345678901234567890'
AddrValid == <<"0","x","1","2","3","4","5","6","7","8","9","0","1","2","3","4","5","6","7","8","9","0","1","2","3","4","5","6","7","8","9","0","1","2","3","4","5","6","7","8","9","0">>
\* '0x70997970C51812dc3A010C7d01b50e0d17dc79C8' (a second account of the wallet)
AddrSecond == <<"0","x","7","0","9","9","7","9","7","0","C","5","1","8","1","2","d","c","3","A","0","1","0","C","7","d","0","1","b","5","0","e","0","d","1","7","d","c","7","9","C","8">>
\* '0x1c7D4B196Cb0C7B01d743Fbc6116a902379C7238' (CONTRACT_ADDRESSES.USDC on Sepolia)
TokenUSDC == <<"0","x","1","c","7","D","4","B","1","9","6","C","b","0","C","7","B","0","1","d","7","4","3","F","b","c","6","1","1","6","a","9","0","2","3","7","9","C","7","2","3","8">>
\* '0x1234'
AddrShort == <<"0","x","1","2","3","4">>
\* '0x12345678901234567890123456789012345678zz'
AddrNonHex == <<"0","x","1","2","3","4","5","6","7","8","9","0","1","2","3","4","5","6","7","8","9","0","1","2","3","4","5","6","7","8","9","0","1","2","3","4","5","6","7","8","z","z">>
\* '1.5'
AmtOnePointFive == <<"1",".","5">>
\* '0'
AmtZero == <<"0">>
\* '-1'
AmtNegative == <<"-","1">>
\* 'abc'
AmtLetters == <<"a","b","c">>
\* '1e5'
AmtExponent == <<"1","e","5">>
\* '0.0'
AmtZeroFrac == <<"0",".","0">>
\* 'User rejected the request'
T_UserRejectedRequest == <<"U","s","e","r"," ","r","e","j","e","c","t","e","d"," ","t","h","e"," ","r","e","q","u","e","s","t">>
\* 'Please switch manually in your wallet'
S_SwitchManually == <<"P","l","e","a","s","e"," ","s","w","i","t","c","h"," ","m","a","n","u","a","l","l","y"," ","i","n"," ","y","o","u","r"," ","w","a","l","l","e","t">>
\* 'does not support programmatic chain switching.'
MsgSwitchNotSupported == <<"d","o","e","s"," ","n","o","t"," ","s","u","p","p","o","r","t"," ","p","r","o","g","r","a","m","m","a","t","i","c"," ","c","h","a","i","n"," ","s","w","i","t","c","h","i","n","g",".">>
\* 'rejected'
P_rejected == <<"r","e","j","e","c","t","e","d">>
\* 'insufficient'
P_insufficient == <<"i","n","s","u","f","f","i","c","i","e","n","t">>
\* 'contract'
P_contract == <<"c","o","n","t","r","a","c","t">>
\* 'failed'
P_failed == <<"f","a","i","l","e","d">>
\* 'User rejected'
F_UserRejected == <<"U","s","e","r"," ","r","e","j","e","c","t","e","d">>
\* 'user denied'
F_UserDenied == <<"u","s","e","r"," ","d","e","n","i","e","d">>
\* 'User Cancelled'
F_UserCancelled == <<"U","s","e","r"," ","C","a","n","c","e","l","l","e","d">>
\* 'insufficient funds'
F_InsufficientFunds == <<"i","n","s","u","f","f","i","c","i","e","n","t"," ","f","u","n","d","s">>
\* 'Insufficient balance'
F_InsufficientBalance == <<"I","n","s","u","f","f","i","c","i","e","n","t"," ","b","a","l","a","n","c","e">>
\* 'Network'
F_Network == <<"N","e","t","w","o","r","k">>
\* 'timeout'
F_Timeout == <<"t","i","m","e","o","u","t">>
\* 'fetch'
F_Fetch == <<"f","e","t","c","h">>
\* 'revert'
F_Revert == <<"r","e","v","e","r","t">>
\* 'execution reverted'
F_ExecutionReverted == <<"e","x","e","c","u","t","i","o","n"," ","r","e","v","e","r","t","e","d">>
\* 'reason="Low"'
F_Reason == <<"r","e","a","s","o","n","=","\"","L","o","w","\"">>
\* 'gas'
F_Gas == <<"g","a","s">>
\* 'Invalid address'
F_InvalidAddress == <<"I","n","v","a","l","i","d"," ","a","d","d","r","e","s","s">>
\* 'nonce'
F_Nonce == <<"n","o","n","c","e">>
\* 'failed'
F_Failed == <<"f","a","i","l","e","d">>
\* 'hello'
F_Hello == <<"h","e","l","l","o">>
\* '' (the empty field)
Empty == <<>>

\* the absent transaction hash (undefined); hashes are numbered from 1
NoHash == 0

----------------------------------------------------------------------------
(* String helpers (String.prototype.toLowerCase, includes, concatenation) *)

UpperChars == <<"A","B","C","D","E","F","G","H","I","J","K","L","M","N","O","P","Q","R","S","T","U","V","W","X","Y","Z">>
LowerChars == <<"a","b","c","d","e","f","g","h","i","j","k","l","m","n","o","p","q","r","s","t","u","v","w","x","y","z">>
DigitChars == <<"0","1","2","3","4","5","6","7","8","9">>

InSeq(c, s) == \E i \in 1..Len(s) : s[i] = c

ToLowerChar(c) ==
  IF InSeq(c, UpperChars)
    THEN LowerChars[CHOOSE i \in 1..Len(UpperChars) : UpperChars[i] = c]
    ELSE c

ToLowerCase(s) == [i \in 1..Len(s) |-> ToLowerChar(s[i])]

\* s.includes(p)
Includes(s, p) ==
  \E i \in 0..(Len(s) - Len(p)) : SubSeq(s, i + 1, i + Len(p)) = p

\* index (1-based) of the first occurrence of character c in s at or after
\* position from, or 0 when there is none
IndexOfFrom(s, c, from) ==
  IF \E i \in from..Len(s) : s[i] = c
    THEN CHOOSE i \in from..Len(s) : s[i] = c /\ \A j \in from..(i - 1) : s[j] # c
    ELSE 0

\* message.match(/reason="([^"]+)"/): the start positions at which the
\* pattern matches; the regular expression engine takes the leftmost one.
ReasonMatchStarts(s) ==
  { i \in 1..Len(s) :
      /\ i + Len(P_reason_open) - 1 <= Len(s)
      /\ SubSeq(s, i, i + Len(P_reason_open) - 1) = P_reason_open
      /\ IndexOfFrom(s, "\"", i + Len(P_reason_open)) > i + Len(P_reason_open) }

\* capture group 1 of the leftmost match (<<>> when there is no match)
ReasonCapture(s) ==
  IF ReasonMatchStarts(s) = {} THEN <<>>
  ELSE LET i == CHOOSE k \in ReasonMatchStarts(s) : \A m \in ReasonMatchStarts(s) : k <= m
           b == i + Len(P_reason_open)
           e == IndexOfFrom(s, "\"", b)
       IN SubSeq(s, b, e - 1)

----------------------------------------------------------------------------
(* lib/utils/errors.ts                                                     *)
(* A failure value is a record [tag, name, message]: tag "null",           *)
(* "undefined", "number" (message holds its digits), "string" (message is  *)
(* the string), "Error" (an Error instance) or "object" (any other object; *)
(* message is its message property, <<>> when it has none).                *)

\* name is the name of the error's class ("Error" for a plain Error)
NamedError(name, msg) == [tag |-> "Error", name |-> name, message |-> msg]

ErrorOf(msg) == NamedError("Error", msg)

\* the absent failure (undefined / null as the value of an error field)
NoError == [tag |-> "none", name |-> "", message |-> <<>>]

\* !error: null, undefined, 0 and '' are falsy
IsFalsy(error) ==
  \/ error.tag \in {"null", "undefined"}
  \/ error.tag = "string" /\ error.message = <<>>
  \/ error.tag = "number" /\ error.message = <<"0">>

\* the classification with the revert rule tried before the network rule
ClassifyLowered_RevertFirst(message, original) ==
  IF Includes(message, P_user_rejected) \/ Includes(message, P_user_denied)
       \/ Includes(message, P_user_cancelled)
    THEN S_Rejected
  ELSE IF Includes(message, P_insufficient_funds) \/ Includes(message, P_insufficient_balance)
    THEN S_Insufficient
  ELSE IF Includes(message, P_revert) \/ Includes(message, P_execution_reverted)
    THEN IF ReasonMatchStarts(message) # {}
           THEN S_ContractErrorPrefix \o ReasonCapture(message)
           ELSE S_Reverted
  ELSE IF Includes(message, P_network) \/ Includes(message, P_timeout) \/ Includes(message, P_fetch)
    THEN S_Network
  ELSE IF Includes(message, P_gas) THEN S_Gas
  ELSE IF Includes(message, P_invalid_address) THEN S_InvalidAddress
  ELSE IF Includes(message, P_nonce) THEN S_Nonce
  ELSE original

\* classification of an Error's lower-cased message, first matching rule wins
ClassifyLowered(message, original) ==
  IF Includes(message, P_user_rejected) \/ Includes(message, P_user_denied)
       \/ Includes(message, P_user_cancelled)
    THEN S_Rejected
  ELSE IF Includes(message, P_insufficient_funds) \/ Includes(message, P_insufficient_balance)
    THEN S_Insufficient
  ELSE IF Includes(message, P_network) \/ Includes(message, P_timeout) \/ Includes(message, P_fetch)
    THEN S_Network
  ELSE IF Includes(message, P_revert) \/ Includes(message, P_execution_reverted)
    THEN IF ReasonMatchStarts(message) # {}
           THEN S_ContractErrorPrefix \o ReasonCapture(message)
           ELSE S_Reverted
  ELSE IF Includes(message, P_gas) THEN S_Gas
  ELSE IF Includes(message, P_invalid_address) THEN S_InvalidAddress
  ELSE IF Includes(message, P_nonce) THEN S_Nonce
  ELSE original

\* parseWeb3Error matching the rules against the message as given, without
\* lower-casing it first
parseWeb3Error_CaseSensitive(error) ==
  IF IsFalsy(error) THEN S_UnknownError
  ELSE IF error.tag = "string" THEN error.message
  ELSE IF error.tag = "Error" THEN ClassifyLowered(error.message, error.message)
  ELSE S_Unexpected

parseWeb3Error(error) ==
  IF IsFalsy(error) THEN S_UnknownError
  ELSE IF error.tag = "string" THEN error.message
  ELSE IF error.tag = "Error" THEN ClassifyLowered(ToLowerCase(error.message), error.message)
  ELSE S_Unexpected

\* createWeb3Error: the type and message of the Web3Error it builds; the
\* tests are applied to the sentence parseWeb3Error returned, as it is
createWeb3Error(error) ==
  LET message == parseWeb3Error(error)
      type == IF Includes(message, P_rejected) THEN "USER_REJECTED"
              ELSE IF Includes(message, P_insufficient) THEN "INSUFFICIENT_FUNDS"
              ELSE IF Includes(message, P_network) THEN "NETWORK_ERROR"
              ELSE IF Includes(message, P_contract) \/ Includes(message, P_revert)
                THEN "CONTRACT_ERROR"
              ELSE IF Includes(message, P_invalid_address) THEN "INVALID_ADDRESS"
              ELSE IF Includes(message, P_failed) THEN "TRANSACTION_FAILED"
              ELSE "UNKNOWN_ERROR"
  IN [type |-> type, message |-> message]

----------------------------------------------------------------------------
(* utils/formatters.ts                                                     *)

\* the {40} of the address pattern
AddressHexLen == 40

\* default of the decimals parameter of parseTokenAmount
DefaultDecimals == 18

HexChars == DigitChars \o <<"a","b","c","d","e","f","A","B","C","D","E","F">>

\* the pattern of isValidAddress without its end anchor
isValidAddress_Unanchored(address) ==
  /\ Len(address) >= 2 + AddressHexLen
  /\ address[1] = "0"
  /\ address[2] = "x"
  /\ \A i \in 3..(2 + AddressHexLen) : InSeq(address[i], HexChars)

\* /^0x[a-fA-F0-9]{40}$/.test(address)
isValidAddress(address) ==
  /\ Len(address) = 2 + AddressHexLen
  /\ address[1] = "0"
  /\ address[2] = "x"
  /\ \A i \in 3..Len(address) : InSeq(address[i], HexChars)

IsDigit(c) == InSeq(c, DigitChars)

\* length of the longest run of decimal digits of s starting at position from
DigitRun(s, from) ==
  IF from > Len(s) \/ ~IsDigit(s[from]) THEN 0
  ELSE LET stops == { i \in from..Len(s) : ~IsDigit(s[i]) }
       IN IF stops = {} THEN Len(s) - from + 1
          ELSE (CHOOSE i \in stops : \A j \in stops : i <= j) - from

HasNonZeroDigit(s, from, to) == \E i \in from..to : IsDigit(s[i]) /\ s[i] # "0"

\* parseFloat(s), reduced to what the forms compare it for: "nan" when no
\* prefix of s is a decimal literal, else the sign of the parsed prefix
\* ("neg", "zero", "pos").  The parsed prefix is [+-] digits [. digits] with
\* at least one digit; an exponent part scales a non-zero mantissa and does
\* not change its sign (the sample inputs stay within double range).
parseFloatSign(s) ==
  LET signLen == IF Len(s) >= 1 /\ (s[1] = "-" \/ s[1] = "+") THEN 1 ELSE 0
      intLen  == DigitRun(s, signLen + 1)
      dotPos  == signLen + intLen + 1
      hasDot  == dotPos <= Len(s) /\ s[dotPos] = "."
      fracLen == IF hasDot THEN DigitRun(s, dotPos + 1) ELSE 0
      lastPos == IF hasDot THEN dotPos + fracLen ELSE signLen + intLen
  IN IF intLen + fracLen = 0 THEN "nan"
     ELSE IF ~HasNonZeroDigit(s, signLen + 1, lastPos) THEN "zero"
     ELSE IF signLen = 1 /\ s[1] = "-" THEN "neg"
     ELSE "pos"

\* /^(-?)([0-9]*)\.?([0-9]*)$/.test(value): the shape parseUnits accepts
IsDecimalShape(value) ==
  LET signLen == IF Len(value) >= 1 /\ value[1] = "-" THEN 1 ELSE 0
      intLen  == DigitRun(value, signLen + 1)
      dotPos  == signLen + intLen + 1
      hasDot  == dotPos <= Len(value) /\ value[dotPos] = "."
      fracLen == IF hasDot THEN DigitRun(value, dotPos + 1) ELSE 0
  IN signLen + intLen + (IF hasDot THEN 1 ELSE 0) + fracLen = Len(value)

RECURSIVE TrimTrailingZeros(_)
TrimTrailingZeros(s) ==
  IF s # <<>> /\ s[Len(s)] = "0" THEN TrimTrailingZeros(SubSeq(s, 1, Len(s) - 1)) ELSE s

RECURSIVE TrimLeadingZeros(_)
TrimLeadingZeros(s) ==
  IF s # <<>> /\ s[1] = "0" THEN TrimLeadingZeros(Tail(s)) ELSE s

Zeros(n) == [i \in 1..n |-> "0"]

DigitValue(c) == (CHOOSE i \in 1..10 : DigitChars[i] = c) - 1

\* the digit string s plus one, keeping the length of s unless it overflows
RECURSIVE IncDigits(_)
IncDigits(s) ==
  IF s = <<>> THEN <<"1">>
  ELSE IF s[Len(s)] = "9" THEN IncDigits(SubSeq(s, 1, Len(s) - 1)) \o <<"0">>
  ELSE SubSeq(s, 1, Len(s) - 1) \o <<DigitChars[DigitValue(s[Len(s)]) + 2]>>

\* BigInt(text) rendered canonically: no leading zeros, "0" for zero
BigIntOf(negative, digits) ==
  LET d == TrimLeadingZeros(digits)
  IN IF d = <<>> THEN <<"0">> ELSE (IF negative THEN <<"-">> ELSE <<>>) \o d

\* parseUnits without the padEnd of the fraction
parseUnits_NoPadding(value, decimals) ==
  LET negative == Len(value) >= 1 /\ value[1] = "-"
      body     == IF negative THEN Tail(value) ELSE value
      dot      == IndexOfFrom(body, ".", 1)
      integer  == IF dot = 0 THEN body ELSE SubSeq(body, 1, dot - 1)
      frac0    == IF dot = 0 THEN <<"0">> ELSE SubSeq(body, dot + 1, Len(body))
  IN BigIntOf(negative, integer \o TrimTrailingZeros(frac0))

\* viem parseUnits(value, decimals) on a value of decimal shape: the integer
\* value * 10^decimals as a canonical digit string
parseUnits(value, decimals) ==
  LET negative == Len(value) >= 1 /\ value[1] = "-"
      body     == IF negative THEN Tail(value) ELSE value
      dot      == IndexOfFrom(body, ".", 1)
      integer  == IF dot = 0 THEN body ELSE SubSeq(body, 1, dot - 1)
      frac0    == IF dot = 0 THEN <<"0">> ELSE SubSeq(body, dot + 1, Len(body))
      fraction == TrimTrailingZeros(frac0)
      roundUp(right) == right # <<>> /\ DigitValue(right[1]) >= 5
  IN IF decimals = 0
       THEN BigIntOf(negative, IF roundUp(fraction) THEN IncDigits(integer) ELSE integer)
     ELSE IF Len(fraction) > decimals
       THEN LET left    == SubSeq(fraction, 1, decimals - 1)
                unit    == fraction[decimals]
                right   == SubSeq(fraction, decimals + 1, Len(fraction))
                rounded == DigitValue(unit) + (IF roundUp(right) THEN 1 ELSE 0)
                f1      == IF rounded > 9 THEN IncDigits(left) \o <<"0">>
                           ELSE left \o <<DigitChars[rounded + 1]>>
                carry   == Len(f1) > decimals
                f2      == IF carry THEN Tail(f1) ELSE f1
                int2    == IF carry THEN IncDigits(integer) ELSE integer
            IN BigIntOf(negative, int2 \o SubSeq(f2, 1, decimals))
     ELSE BigIntOf(negative, integer \o fraction \o Zeros(decimals - Len(fraction)))

\* try { return parseUnits(value, decimals) } catch { return 0n }
parseTokenAmount(value, decimals) ==
  IF IsDecimalShape(value) THEN parseUnits(value, decimals) ELSE <<"0">>

\* number of hex digits of a transaction hash
TxHashHexLen == 64

\* /^0x[a-fA-F0-9]{64}$/.test(hash)
isValidTxHash(hash) ==
  /\ Len(hash) = 2 + TxHashHexLen
  /\ hash[1] = "0"
  /\ hash[2] = "x"
  /\ \A i \in 3..Len(hash) : InSeq(hash[i], HexChars)

----------------------------------------------------------------------------
(* State                                                                   *)

VARIABLES
  recipient,     \* form field: useState('') of the transfer forms
  amount,        \* form field: useState('')
  tokenAddress,  \* form field of TokenTransferForm: useState('')
  txHash,        \* the hook's useState<Hash | undefined>()
  mutStatus,     \* chain client mutation: "idle" | "pending" | "success" | "error"
  mutData,       \* chain client mutation data (the hash it returned) or NoHash
  mutError,      \* chain client mutation error or NoError
  rcptStatus,    \* per hash, the receipt query: "none" | "loading" | "success" | "error"
  rcptError,     \* per hash, the failure of the receipt query or NoError
  optionsRef,    \* identity of the options object literal built by the last render
  prevDeps,      \* dependency arrays of the hook's effects at the last render
  log,           \* history: chain client calls, notifications, callback calls
  issued,        \* number of transaction hashes the chain client has returned
  userActs,      \* number of user gestures so far (typing, submitting, clicking)
  accStatus,     \* useAccount().status: "disconnected" | "connecting" | "connected" | "reconnecting"
  accAddress,    \* useAccount().address (Empty when undefined)
  accChain,      \* useAccount().chain?.id (NoChain when undefined)
  accConnector,  \* useAccount().connector (NoConnector when undefined)
  snapshot,      \* the persisted record of useWalletStore (localStorage 'wallet-storage')
  teardown,      \* the chain client's disconnect: "none" | "inflight"
  tab,           \* the selected tab of ConnectedContent
  switching,     \* the switchNetwork call in flight, or NoSwitch
  switchError,   \* what the last finished switchNetwork call threw, or NoError
  callArgs,      \* the arguments of a call of a pure function (<<>> when there is none)
  reads,         \* number of getValue reads CounterContract has issued
  callResult,    \* [fn, type, value]: the function applied to callArgs and what it returned
  clipboardEnv,  \* [api, secure]: navigator.clipboard is present, window.isSecureContext
  copyInflight,  \* number of navigator.clipboard.writeText promises not settled yet
  modalOpen,     \* isModalOpen of WalletConnect: the open prop of WalletConnectModal
  clickedWallet, \* id of the wallet whose button was clicked last ("" when none)
  installed,     \* ids of the wallet options that the flags of window.ethereum mark installed
  connectors,    \* connectors of useConnect(), in the order the chain client lists them
  tokenURI,      \* data of the tokenURI read of useNFT ("" when undefined)
  metadata,      \* useState<NFTMetadata | null>(null) of useNFT ("" when null)
  isLoadingMetadata, \* useState(false) of useNFT
  fetches        \* the fetchMetadata calls started so far: [uri, settled]

lifecycleVars == <<recipient, amount, tokenAddress, txHash, mutStatus, mutData, mutError,
                   rcptStatus, rcptError, optionsRef, prevDeps, issued>>

walletVars == <<accStatus, accAddress, accChain, accConnector, snapshot, teardown, tab,
                switching, switchError>>

\* a call of a pure function of lib/utils/errors.ts or utils/formatters.ts
pureVars == <<callArgs, callResult>>

\* the counter-value query of CounterContract
counterVars == <<reads>>

panelVars == <<clipboardEnv, copyInflight, modalOpen, clickedWallet, installed, connectors,
               tokenURI, metadata,
               isLoadingMetadata, fetches>>

vars == <<lifecycleVars, walletVars, pureVars, counterVars, panelVars, log, userActs>>

\* what the steps of one component leave alone
outsideLifecycle == <<walletVars, pureVars, counterVars, panelVars>>
outsideWallet == <<lifecycleVars, pureVars, counterVars, panelVars>>

\* no function has been applied
NotCalled == [fn |-> "", type |-> "", value |-> <<>>]
PureQuiet == callArgs = <<>> /\ callResult = NotCalled

\* CounterContract has not been mounted
CounterQuiet == reads = 0

\* nothing has been copied, the wallet modal is closed, useNFT has no token
PanelQuiet ==
  /\ clipboardEnv = [api |-> TRUE, secure |-> TRUE] /\ copyInflight = 0
  /\ modalOpen = FALSE /\ clickedWallet = "" /\ installed = {} /\ connectors = <<>>
  /\ tokenURI = "" /\ metadata = "" /\ isLoadingMetadata = FALSE /\ fetches = <<>>

\* absent values of the wallet session
NoChain == 0
NoConnector == [id |-> "", name |-> "", canSwitch |-> FALSE]
NoSwitch == [by |-> "", target |-> NoChain]

\* the store's initial state and what clearLastConnected sets: all three undefined
EmptySnapshot == [address |-> Empty, chainId |-> NoChain, connector |-> ""]

\* the wallet session and the store before anything has connected
WalletQuiet ==
  /\ accStatus = "disconnected" /\ accAddress = Empty /\ accChain = NoChain
  /\ accConnector = NoConnector
  /\ snapshot = EmptySnapshot
  /\ teardown = "none"
  /\ tab = "balances"
  /\ switching = NoSwitch /\ switchError = NoError

\* Bounds of the model
MaxAttempts == 2
MaxUserActs == 7
MaxWalletActs == 4

Hashes == 1..(MaxAttempts + 1)

\* what a user can have in the fields
RecipientInputs == {Empty, AddrValid, AddrNonHex}
AmountInputs == {Empty, AmtOnePointFive, AmtZero, AmtNegative, AmtExponent}
TokenInputs == {Empty, TokenUSDC}

\* failures the chain client raises for a submission, and for a confirmation
SubmitFailures == {ErrorOf(MsgUserRejected), ErrorOf(MsgInsufficient)}
ConfirmFailures == {ErrorOf(MsgRevertUnderflow), ErrorOf(MsgRpc)}

\* one entry of the history: op is "call" (a chain client call), "loading" |
\* "success" | "error" (a notification shown), "dismiss" (toast.dismiss) or
\* "cb" (a call site options?.onX?.(...) reached); id is the notification
\* key given to the toast (NoHash when none is given); ref is the hash the
\* entry is about (named in its text or passed as its argument)
Entry(op, title, desc, id, ref) ==
  [op |-> op, title |-> title, desc |-> desc, id |-> id, ref |-> ref]

\* the hook's derived outputs, as functions of the state they read
IsPending(ms) == ms = "pending"
IsConfirming(h, rs) == h # NoHash /\ rs[h] = "loading"
\* isSuccess taken for "the receipt query has settled"
IsConfirmed_AnyOutcome(h, rs) == h # NoHash /\ rs[h] \in {"success", "error"}
IsConfirmed(h, rs) == h # NoHash /\ rs[h] = "success"
ConfirmError(h, rs, re) == IF h # NoHash /\ rs[h] = "error" THEN re[h] ELSE NoError
Receipt(h, rs) == IF IsConfirmed(h, rs) THEN h ELSE NoHash

\* isLoading of the forms: isPending || isConfirming
FormLoading == IsPending(mutStatus) \/ IsConfirming(txHash, rcptStatus)

----------------------------------------------------------------------------
(* useSendTransaction with NativeTransferForm                              *)

\* dependency arrays of the two effects of useSendTransaction
SendDeps(h, rs, re, oref) ==
  [confirmed |-> <<IsConfirmed(h, rs), h, Receipt(h, rs), oref>>,
   failed    |-> <<ConfirmError(h, rs, re), h>>]

\* the effect on [isConfirmed, txHash, receipt, options]
SendConfirmedEffect(h, rs) ==
  IF IsConfirmed(h, rs)
    THEN << Entry("dismiss", "", <<>>, h, h),
            Entry("success", "Transfer Successful!", <<>>, NoHash, h),
            Entry("cb", "onConfirmed", <<>>, NoHash, h) >>
    ELSE <<>>

\* the effect on [confirmError, txHash]
SendFailedEffect(h, rs, re) ==
  IF ConfirmError(h, rs, re) # NoError
    THEN << Entry("dismiss", "", <<>>, h, h),
            Entry("error", "Transfer Failed", parseWeb3Error(ConfirmError(h, rs, re)), NoHash, h) >>
    ELSE <<>>

\* what a render of NativeTransferForm appends to the history: each effect
\* whose dependency array differs from the one of the previous render runs
SendRenderEffects(h, rs, re, oref, pd) ==
  LET d == SendDeps(h, rs, re, oref)
  IN (IF d.confirmed # pd.confirmed THEN SendConfirmedEffect(h, rs) ELSE <<>>)
     \o (IF d.failed # pd.failed THEN SendFailedEffect(h, rs, re) ELSE <<>>)

\* const { ... } = useSendTransaction({ onSuccess: ... }): every render builds
\* a new options object
NativeOptionsRef(oref) == 1 - oref

\* a render of NativeTransferForm after the state named by the primed
\* variables has been set; entries are what the handler itself appended
SendRender(entries) ==
  /\ optionsRef' = NativeOptionsRef(optionsRef)
  /\ prevDeps' = SendDeps(txHash', rcptStatus', rcptError', optionsRef')
  /\ log' = log \o entries
              \o SendRenderEffects(txHash', rcptStatus', rcptError', optionsRef', prevDeps)

SendInit ==
  /\ recipient = Empty /\ amount = Empty /\ tokenAddress = Empty
  /\ txHash = NoHash
  /\ mutStatus = "idle" /\ mutData = NoHash /\ mutError = NoError
  /\ rcptStatus = [h \in Hashes |-> "none"]
  /\ rcptError = [h \in Hashes |-> NoError]
  /\ optionsRef = 0
  /\ prevDeps = SendDeps(NoHash, [h \in Hashes |-> "none"], [h \in Hashes |-> NoError], 0)
  /\ log = <<>>
  /\ issued = 0
  /\ userActs = 0
  /\ WalletQuiet /\ PureQuiet /\ CounterQuiet /\ PanelQuiet

\* onChange of the recipient input (disabled while isLoading)
NativeTypeRecipient(v) ==
  /\ UNCHANGED outsideLifecycle
  /\ ~FormLoading /\ userActs < MaxUserActs /\ v # recipient
  /\ recipient' = v
  /\ userActs' = userActs + 1
  /\ UNCHANGED <<amount, tokenAddress, txHash, mutStatus, mutData, mutError,
                 rcptStatus, rcptError, issued>>
  /\ SendRender(<<>>)

\* onChange of the amount input (disabled while isLoading)
NativeTypeAmount(v) ==
  /\ UNCHANGED outsideLifecycle
  /\ ~FormLoading /\ userActs < MaxUserActs /\ v # amount
  /\ amount' = v
  /\ userActs' = userActs + 1
  /\ UNCHANGED <<recipient, tokenAddress, txHash, mutStatus, mutData, mutError,
                 rcptStatus, rcptError, issued>>
  /\ SendRender(<<>>)

\* the amount check of handleSubmit: !amount || parseFloat(amount) <= 0
AmountRejected(a) == a = Empty \/ parseFloatSign(a) \in {"zero", "neg"}

\* NativeTransferForm.handleSubmit (the submit control is disabled while isLoading)
NativeHandleSubmit ==
  /\ UNCHANGED outsideLifecycle
  /\ ~FormLoading /\ userActs < MaxUserActs
  /\ userActs' = userActs + 1
  /\ IF ~isValidAddress(recipient)
       THEN /\ log' = Append(log, Entry("error", "Invalid recipient address", <<>>, NoHash, NoHash))
            /\ UNCHANGED <<recipient, amount, tokenAddress, txHash, mutStatus, mutData,
                           mutError, rcptStatus, rcptError, optionsRef, prevDeps, issued>>
     ELSE IF AmountRejected(amount)
       THEN /\ log' = Append(log, Entry("error", "Invalid amount", <<>>, NoHash, NoHash))
            /\ UNCHANGED <<recipient, amount, tokenAddress, txHash, mutStatus, mutData,
                           mutError, rcptStatus, rcptError, optionsRef, prevDeps, issued>>
     ELSE \* sendTransaction -> sendTransactionAsync({ to, value })
            /\ issued < MaxAttempts
            /\ mutStatus' = "pending" /\ mutData' = NoHash /\ mutError' = NoError
            /\ UNCHANGED <<recipient, amount, tokenAddress, txHash, rcptStatus, rcptError, issued>>
            /\ SendRender(<< Entry("call", "sendTransactionAsync",
                                   parseTokenAmount(amount, DefaultDecimals), NoHash, NoHash) >>)

\* sendTransactionAsync resolves with a hash: the rest of the try block of
\* sendTransaction runs, with the onSuccess of NativeTransferForm
SendAccepted ==
  /\ UNCHANGED outsideLifecycle
  /\ mutStatus = "pending"
  /\ LET hash == issued + 1
     IN /\ issued' = hash
        /\ mutStatus' = "success" /\ mutData' = hash /\ mutError' = NoError
        /\ txHash' = hash
        /\ rcptStatus' = [rcptStatus EXCEPT ![hash] = "loading"]
        /\ recipient' = Empty /\ amount' = Empty
        /\ UNCHANGED <<tokenAddress, rcptError, userActs>>
        /\ SendRender(<< Entry("loading", "Transaction Submitted", <<>>, hash, hash),
                         Entry("cb", "onSuccess", <<>>, NoHash, hash),
                         Entry("success", "Transaction submitted: ${hash}", <<>>, NoHash, hash) >>)

\* sendTransactionAsync rejects: the catch block of sendTransaction runs
SendRejected(error) ==
  /\ UNCHANGED outsideLifecycle
  /\ mutStatus = "pending"
  /\ mutStatus' = "error" /\ mutError' = error
  /\ UNCHANGED <<recipient, amount, tokenAddress, txHash, mutData, rcptStatus, rcptError,
                 issued, userActs>>
  /\ SendRender(<< Entry("error", "Transaction Rejected", parseWeb3Error(error), NoHash, NoHash),
                   Entry("cb", "onError", <<>>, NoHash, NoHash) >>)

\* useWaitForTransactionReceipt({ hash: txHash }) obtains the receipt
SendReceiptSuccess ==
  /\ UNCHANGED outsideLifecycle
  /\ IsConfirming(txHash, rcptStatus)
  /\ rcptStatus' = [rcptStatus EXCEPT ![txHash] = "success"]
  /\ UNCHANGED <<recipient, amount, tokenAddress, txHash, mutStatus, mutData, mutError,
                 rcptError, issued, userActs>>
  /\ SendRender(<<>>)

\* useWaitForTransactionReceipt({ hash: txHash }) fails (reverted, timed out)
SendReceiptFailure(error) ==
  /\ UNCHANGED outsideLifecycle
  /\ IsConfirming(txHash, rcptStatus)
  /\ rcptStatus' = [rcptStatus EXCEPT ![txHash] = "error"]
  /\ rcptError' = [rcptError EXCEPT ![txHash] = error]
  /\ UNCHANGED <<recipient, amount, tokenAddress, txHash, mutStatus, mutData, mutError,
                 issued, userActs>>
  /\ SendRender(<<>>)

SendNext ==
  \/ \E v \in RecipientInputs : NativeTypeRecipient(v)
  \/ \E v \in AmountInputs : NativeTypeAmount(v)
  \/ NativeHandleSubmit
  \/ SendAccepted
  \/ \E e \in SubmitFailures : SendRejected(e)
  \/ SendReceiptSuccess
  \/ \E e \in ConfirmFailures : SendReceiptFailure(e)

SpecSend == SendInit /\ [][SendNext]_vars

\* sendTransaction(to, value) called on the hook instance by a caller that
\* does not look at isConfirming, while the receipt of the previous attempt
\* is awaited: the hook itself has no guard
HookSendTransaction ==
  /\ UNCHANGED outsideLifecycle
  /\ IsConfirming(txHash, rcptStatus) /\ ~IsPending(mutStatus)
  /\ issued < MaxAttempts /\ userActs < MaxUserActs
  /\ userActs' = userActs + 1
  /\ mutStatus' = "pending" /\ mutData' = NoHash /\ mutError' = NoError
  /\ UNCHANGED <<recipient, amount, tokenAddress, txHash, rcptStatus, rcptError, issued>>
  /\ SendRender(<< Entry("call", "sendTransactionAsync", <<"1">>, NoHash, NoHash) >>)

SendHookNext == SendNext \/ HookSendTransaction

\* useSendTransaction with a second attempt started while the first confirms
SpecSendHook == SendInit /\ [][SendHookNext]_vars

----------------------------------------------------------------------------
(* useContractWrite / useTokenTransfer with TokenTransferForm              *)

\* dependency arrays of the two effects of useContractWrite
WriteDeps(h, rs, re, oref) ==
  [confirmed |-> <<IsConfirmed(h, rs), h, Receipt(h, rs), oref>>,
   failed    |-> <<ConfirmError(h, rs, re), h>>]

\* the effect on [isConfirmed, txHash, receipt, options]
WriteConfirmedEffect(h, rs) ==
  IF IsConfirmed(h, rs)
    THEN << Entry("dismiss", "", <<>>, h, h),
            Entry("success", "Transaction Confirmed!", <<>>, NoHash, h),
            Entry("cb", "onConfirmed", <<>>, NoHash, h) >>
    ELSE <<>>

\* the effect on [confirmError, txHash]
WriteFailedEffect(h, rs, re) ==
  IF ConfirmError(h, rs, re) # NoError
    THEN << Entry("dismiss", "", <<>>, h, h),
            Entry("error", "Transaction Failed", parseWeb3Error(ConfirmError(h, rs, re)), NoHash, h) >>
    ELSE <<>>

WriteRenderEffects(h, rs, re, oref, pd) ==
  LET d == WriteDeps(h, rs, re, oref)
  IN (IF d.confirmed # pd.confirmed THEN WriteConfirmedEffect(h, rs) ELSE <<>>)
     \o (IF d.failed # pd.failed THEN WriteFailedEffect(h, rs, re) ELSE <<>>)

\* useTokenTransfer(tokenAddress as Address, { onSuccess: ... }): every render
\* builds a new options object
TokenOptionsRef(oref) == 1 - oref

\* a render of TokenTransferForm after the state named by the primed
\* variables has been set
WriteRender(entries) ==
  /\ optionsRef' = TokenOptionsRef(optionsRef)
  /\ prevDeps' = WriteDeps(txHash', rcptStatus', rcptError', optionsRef')
  /\ log' = log \o entries
              \o WriteRenderEffects(txHash', rcptStatus', rcptError', optionsRef', prevDeps)

\* the value `await writeContract({...})` yields in write: writeContract is the
\* chain client's fire-and-forget mutate function, which returns nothing and
\* reports its outcome through data / error only (the variant that returns the
\* hash is writeContractAsync, as CounterContract uses it)
writeContractReturn == NoHash

WriteInit ==
  /\ recipient = Empty /\ amount = Empty /\ tokenAddress = Empty
  /\ txHash = NoHash
  /\ mutStatus = "idle" /\ mutData = NoHash /\ mutError = NoError
  /\ rcptStatus = [h \in Hashes |-> "none"]
  /\ rcptError = [h \in Hashes |-> NoError]
  /\ optionsRef = 0
  /\ prevDeps = WriteDeps(NoHash, [h \in Hashes |-> "none"], [h \in Hashes |-> NoError], 0)
  /\ log = <<>>
  /\ issued = 0
  /\ userActs = 0
  /\ WalletQuiet /\ PureQuiet /\ CounterQuiet /\ PanelQuiet

\* onValueChange of the token Select (never disabled)
TokenSelect(v) ==
  /\ UNCHANGED outsideLifecycle
  /\ userActs < MaxUserActs /\ v # tokenAddress
  /\ tokenAddress' = v
  /\ userActs' = userActs + 1
  /\ UNCHANGED <<recipient, amount, txHash, mutStatus, mutData, mutError,
                 rcptStatus, rcptError, issued>>
  /\ WriteRender(<<>>)

\* onChange of the recipient input (disabled while isLoading)
TokenTypeRecipient(v) ==
  /\ UNCHANGED outsideLifecycle
  /\ ~FormLoading /\ userActs < MaxUserActs /\ v # recipient
  /\ recipient' = v
  /\ userActs' = userActs + 1
  /\ UNCHANGED <<amount, tokenAddress, txHash, mutStatus, mutData, mutError,
                 rcptStatus, rcptError, issued>>
  /\ WriteRender(<<>>)

\* onChange of the amount input (disabled while isLoading)
TokenTypeAmount(v) ==
  /\ UNCHANGED outsideLifecycle
  /\ ~FormLoading /\ userActs < MaxUserActs /\ v # amount
  /\ amount' = v
  /\ userActs' = userActs + 1
  /\ UNCHANGED <<recipient, tokenAddress, txHash, mutStatus, mutData, mutError,
                 rcptStatus, rcptError, issued>>
  /\ WriteRender(<<>>)

\* TokenTransferForm.handleSubmit (the submit control is disabled while
\* isLoading or while no token is selected); its last branch is
\* transfer -> useContractWrite.write, whose try block runs to its end as
\* soon as the awaited value of writeContract is there
TokenHandleSubmit ==
  /\ UNCHANGED outsideLifecycle
  /\ ~FormLoading /\ tokenAddress # Empty /\ userActs < MaxUserActs
  /\ userActs' = userActs + 1
  /\ IF ~isValidAddress(recipient)
       THEN /\ log' = Append(log, Entry("error", "Invalid recipient address", <<>>, NoHash, NoHash))
            /\ UNCHANGED <<recipient, amount, tokenAddress, txHash, mutStatus, mutData,
                           mutError, rcptStatus, rcptError, optionsRef, prevDeps, issued>>
     ELSE IF tokenAddress = Empty \/ ~isValidAddress(tokenAddress)
       THEN /\ log' = Append(log, Entry("error", "Invalid token address", <<>>, NoHash, NoHash))
            /\ UNCHANGED <<recipient, amount, tokenAddress, txHash, mutStatus, mutData,
                           mutError, rcptStatus, rcptError, optionsRef, prevDeps, issued>>
     ELSE IF AmountRejected(amount)
       THEN /\ log' = Append(log, Entry("error", "Invalid amount", <<>>, NoHash, NoHash))
            /\ UNCHANGED <<recipient, amount, tokenAddress, txHash, mutStatus, mutData,
                           mutError, rcptStatus, rcptError, optionsRef, prevDeps, issued>>
     ELSE /\ issued < MaxAttempts
          /\ mutStatus' = "pending" /\ mutData' = NoHash /\ mutError' = NoError
          /\ txHash' = writeContractReturn
          /\ recipient' = Empty /\ amount' = Empty
          /\ UNCHANGED <<tokenAddress, rcptStatus, rcptError, issued>>
          /\ WriteRender(<< Entry("call", "writeContract",
                                  parseTokenAmount(amount, DefaultDecimals), NoHash, NoHash),
                            Entry("success", "Transaction submitted!", <<>>, NoHash, writeContractReturn),
                            Entry("cb", "onSuccess", <<>>, NoHash, writeContractReturn),
                            Entry("success", "Transaction submitted: ${hash}", <<>>, NoHash,
                                  writeContractReturn) >>)

\* the wallet signs and the chain client obtains the hash: it is published as
\* the mutation's data; no code of write runs
WriteAccepted ==
  /\ UNCHANGED outsideLifecycle
  /\ mutStatus = "pending"
  /\ issued' = issued + 1
  /\ mutStatus' = "success" /\ mutData' = issued + 1 /\ mutError' = NoError
  /\ UNCHANGED <<recipient, amount, tokenAddress, txHash, rcptStatus, rcptError, userActs>>
  /\ WriteRender(<<>>)

\* the user rejects or the submission fails: it is published as the
\* mutation's error; writeContract does not throw, so the catch block of
\* write does not run
WriteRejected(error) ==
  /\ UNCHANGED outsideLifecycle
  /\ mutStatus = "pending"
  /\ mutStatus' = "error" /\ mutError' = error
  /\ UNCHANGED <<recipient, amount, tokenAddress, txHash, mutData, rcptStatus, rcptError,
                 issued, userActs>>
  /\ WriteRender(<<>>)

\* useWaitForTransactionReceipt({ hash: txHash }) issues no request while
\* txHash is undefined, so no receipt event exists for this hook
WriteNext ==
  \/ \E v \in TokenInputs : TokenSelect(v)
  \/ \E v \in RecipientInputs : TokenTypeRecipient(v)
  \/ \E v \in AmountInputs : TokenTypeAmount(v)
  \/ TokenHandleSubmit
  \/ WriteAccepted
  \/ \E e \in SubmitFailures : WriteRejected(e)

SpecWrite == WriteInit /\ [][WriteNext]_vars


----------------------------------------------------------------------------
(* useWallet with useWalletStore, WalletConnect, NetworkSwitcher and       *)
(* CounterContract                                                         *)

\* ChainId.MAINNET (mainnet.id) and the chain of the Counter contract
ChainMainnet == 1
REQUIRED_CHAIN_ID == 11155111

\* chains of SUPPORTED_CHAINS the model switches between
SupportedChainIds == {ChainMainnet, REQUIRED_CHAIN_ID}

\* chain?.id of the account: a configured chain, or undefined when the wallet
\* is on a chain the configuration does not list
SessionChains == SupportedChainIds \cup {NoChain}

Accounts == {AddrValid, AddrSecond}

\* connectors of the chain client: one that implements switchChain and one
\* that does not
ConnectorMetaMask == [id |-> "io.metamask", name |-> "MetaMask", canSwitch |-> TRUE]
ConnectorNoSwitch == [id |-> "mock", name |-> "Mock Connector", canSwitch |-> FALSE]
Connectors == {ConnectorMetaMask, ConnectorNoSwitch}

\* tabs of ConnectedContent, and those whose content calls useWallet
Tabs == {"balances", "contracts", "about"}
MountsUseWallet(t) == t \in {"balances", "contracts"}

\* failures the wallet or its RPC raises for a switch request
SwitchFailures == {NamedError("UserRejectedRequestError", MsgUserRejected),
                   NamedError("SwitchChainError", MsgRpc)}

\* what the chain client raises when the connector has no switchChain
SwitchChainNotSupported == NamedError("SwitchChainNotSupportedError", MsgSwitchNotSupported)

\* isConnected of useAccount
\* isConnected taken as true whatever the status of the account is
IsConnected_AnyStatus(status) == status \in {"connected", "disconnected"}
IsConnected(status) == status = "connected"

\* the dependency list of the persist effect
PersistDeps(status, address, chainId, connector) ==
  <<IsConnected(status), address, chainId, connector>>

\* setLastConnected(address, chainId, connector.id)
setLastConnected(address, chainId, connectorId) ==
  [address |-> address, chainId |-> chainId, connector |-> connectorId]

\* a persist effect that does not look at chainId
PersistEffect_NoChainCheck(status, address, chainId, connector, snap) ==
  IF IsConnected(status) /\ address # Empty /\ connector # NoConnector
  THEN setLastConnected(address, chainId, connector.id)
  ELSE snap

\* one run of the persist effect: the snapshot it leaves
PersistEffect(status, address, chainId, connector, snap) ==
  IF IsConnected(status) /\ address # Empty /\ connector # NoConnector /\ chainId # NoChain
  THEN setLastConnected(address, chainId, connector.id)
  ELSE snap

\* a change of the account state followed by the renders it causes: the
\* effect runs where its dependencies changed
SessionBecomes(status, address, chainId, connector) ==
  /\ accStatus' = status
  /\ accAddress' = address
  /\ accChain' = chainId
  /\ accConnector' = connector
  /\ snapshot' =
       IF PersistDeps(status, address, chainId, connector)
            # PersistDeps(accStatus, accAddress, accChain, accConnector)
       THEN PersistEffect(status, address, chainId, connector, snapshot)
       ELSE snapshot
  \* ConnectedContent is mounted with its default tab when the account connects
  /\ tab' = IF IsConnected(status) /\ IsConnected(accStatus) THEN tab ELSE "balances"

WalletInit ==
  /\ WalletQuiet /\ PureQuiet /\ CounterQuiet /\ PanelQuiet
  /\ recipient = Empty /\ amount = Empty /\ tokenAddress = Empty
  /\ txHash = NoHash
  /\ mutStatus = "idle" /\ mutData = NoHash /\ mutError = NoError
  /\ rcptStatus = [h \in Hashes |-> "none"]
  /\ rcptError = [h \in Hashes |-> NoError]
  /\ optionsRef = 0
  /\ prevDeps = SendDeps(NoHash, [h \in Hashes |-> "none"], [h \in Hashes |-> NoError], 0)
  /\ log = <<>>
  /\ issued = 0
  /\ userActs = 0

\* a click on a connector of the WalletConnect dialog: connect({ connector })
ConnectClicked ==
  /\ ~IsConnected(accStatus) /\ accStatus = "disconnected"
  /\ userActs < MaxWalletActs
  /\ userActs' = userActs + 1
  /\ SessionBecomes("connecting", Empty, NoChain, NoConnector)
  /\ UNCHANGED <<outsideWallet, log, teardown, switching, switchError>>

\* the wallet approves the connection
ConnectSucceeds(address, chainId, connector) ==
  /\ accStatus = "connecting"
  /\ SessionBecomes("connected", address, chainId, connector)
  /\ UNCHANGED <<outsideWallet, log, userActs, teardown, switching, switchError>>

\* the wallet refuses the connection
ConnectFails ==
  /\ accStatus = "connecting"
  /\ SessionBecomes("disconnected", Empty, NoChain, NoConnector)
  /\ UNCHANGED <<outsideWallet, log, userActs, teardown, switching, switchError>>

\* the wallet reports another account (accountsChanged)
AccountChanged(address) ==
  /\ IsConnected(accStatus) /\ address # accAddress
  /\ SessionBecomes(accStatus, address, accChain, accConnector)
  /\ UNCHANGED <<outsideWallet, log, userActs, teardown, switching, switchError>>

\* the wallet reports another chain (chainChanged)
ChainChanged(chainId) ==
  /\ IsConnected(accStatus) /\ chainId # accChain
  /\ SessionBecomes(accStatus, accAddress, chainId, accConnector)
  /\ UNCHANGED <<outsideWallet, log, userActs, teardown, switching, switchError>>

\* the wallet ends the session itself (the connector's disconnect event)
ConnectorDisconnected ==
  /\ IsConnected(accStatus)
  /\ SessionBecomes("disconnected", Empty, NoChain, NoConnector)
  \* a teardown in flight has nothing left to end
  /\ teardown' = "none"
  /\ UNCHANGED <<outsideWallet, log, userActs, switching, switchError>>

\* a click on a tab of ConnectedContent: its content mounts, and a mounting
\* component that calls useWallet runs the persist effect
SelectTab(t) ==
  /\ IsConnected(accStatus) /\ t # tab
  /\ userActs < MaxWalletActs
  /\ userActs' = userActs + 1
  /\ tab' = t
  /\ snapshot' = IF MountsUseWallet(t)
                 THEN PersistEffect(accStatus, accAddress, accChain, accConnector, snapshot)
                 ELSE snapshot
  /\ UNCHANGED <<outsideWallet, log, accStatus, accAddress, accChain, accConnector,
                 teardown, switching, switchError>>

\* useWallet.disconnect, the onClick of the Disconnect item of WalletConnect:
\* wagmiDisconnect() starts the teardown and returns, clearLastConnected() runs
disconnect ==
  /\ IsConnected(accStatus)
  /\ userActs < MaxWalletActs
  /\ userActs' = userActs + 1
  /\ teardown' = "inflight"
  /\ log' = Append(log, Entry("call", "disconnect", Empty, NoHash, NoHash))
  /\ snapshot' = EmptySnapshot
  /\ UNCHANGED <<outsideWallet, accStatus, accAddress, accChain, accConnector, tab,
                 switching, switchError>>

\* the teardown started by wagmiDisconnect() completes
TeardownCompletes ==
  /\ teardown = "inflight" /\ IsConnected(accStatus)
  /\ teardown' = "none"
  /\ SessionBecomes("disconnected", Empty, NoChain, NoConnector)
  /\ UNCHANGED <<outsideWallet, log, userActs, switching, switchError>>

\* the teardown started by wagmiDisconnect() fails: the session is as before
TeardownFails ==
  /\ teardown = "inflight"
  /\ teardown' = "none"
  /\ UNCHANGED <<outsideWallet, log, userActs, accStatus, accAddress, accChain,
                 accConnector, snapshot, tab, switching, switchError>>

\* useSwitchChain returns switchChainAsync for every connector
switchChainAsyncDefined == TRUE

\* useWallet.switchNetwork: what it throws (NoError when it resolves), given
\* what switchChainAsync threw
switchNetwork(thrown) ==
  IF switchChainAsyncDefined
  THEN thrown
  ELSE ErrorOf(S_SwitchNotSupported)

\* a click on a chain of NetworkSwitcher, or on 'Switch to Sepolia' of
\* CounterContract: handleSwitchNetwork up to its await
SwitchClicked(by, target) ==
  /\ IsConnected(accStatus) /\ switching = NoSwitch
  /\ \/ by = "NetworkSwitcher" /\ target # accChain
     \/ by = "CounterContract" /\ tab = "contracts"
          /\ accChain # REQUIRED_CHAIN_ID /\ target = REQUIRED_CHAIN_ID
  /\ userActs < MaxWalletActs
  /\ userActs' = userActs + 1
  /\ switching' = [by |-> by, target |-> target]
  /\ UNCHANGED <<outsideWallet, log, accStatus, accAddress, accChain, accConnector,
                 snapshot, teardown, tab, switchError>>

\* the notification handleSwitchNetwork shows for what switchNetwork threw
SwitchToast(by, thrown) ==
  IF by = "CounterContract"
  THEN IF thrown = NoError
       THEN Entry("success", "Network Switched", Empty, NoHash, NoHash)
       ELSE Entry("error", "Failed to Switch Network", S_SwitchManually, NoHash, NoHash)
  ELSE IF thrown = NoError
       THEN Entry("success", "Switched to", Empty, NoHash, NoHash)
       ELSE Entry("error", "Failed to switch network", Empty, NoHash, NoHash)

\* the wallet switches: switchNetwork resolves, the account is on the target
SwitchSucceeds ==
  /\ switching # NoSwitch /\ IsConnected(accStatus) /\ accConnector.canSwitch
  /\ SessionBecomes(accStatus, accAddress, switching.target, accConnector)
  /\ switchError' = switchNetwork(NoError)
  /\ log' = Append(log, SwitchToast(switching.by, switchNetwork(NoError)))
  /\ switching' = NoSwitch
  /\ UNCHANGED <<outsideWallet, userActs, teardown>>

\* the wallet or its RPC refuses the switch: switchNetwork rethrows
SwitchFails(error) ==
  /\ switching # NoSwitch /\ IsConnected(accStatus) /\ accConnector.canSwitch
  /\ switchError' = switchNetwork(error)
  /\ log' = Append(log, SwitchToast(switching.by, switchNetwork(error)))
  /\ switching' = NoSwitch
  /\ UNCHANGED <<outsideWallet, userActs, accStatus, accAddress, accChain, accConnector,
                 snapshot, teardown, tab>>

\* the connector has no switchChain: the chain client throws at once
SwitchUnsupported ==
  /\ switching # NoSwitch /\ IsConnected(accStatus) /\ ~accConnector.canSwitch
  /\ switchError' = switchNetwork(SwitchChainNotSupported)
  /\ log' = Append(log, SwitchToast(switching.by, switchNetwork(SwitchChainNotSupported)))
  /\ switching' = NoSwitch
  /\ UNCHANGED <<outsideWallet, userActs, accStatus, accAddress, accChain, accConnector,
                 snapshot, teardown, tab>>

\* the session ended while a switch was pending: the request is rejected
SwitchAbandoned ==
  /\ switching # NoSwitch /\ ~IsConnected(accStatus)
  /\ switchError' = switchNetwork(NamedError("ConnectorNotConnectedError", MsgRpc))
  /\ log' = Append(log, SwitchToast(switching.by,
                        switchNetwork(NamedError("ConnectorNotConnectedError", MsgRpc))))
  /\ switching' = NoSwitch
  /\ UNCHANGED <<outsideWallet, userActs, accStatus, accAddress, accChain, accConnector,
                 snapshot, teardown, tab>>

WalletNext ==
  \/ ConnectClicked
  \/ \E a \in Accounts, c \in SessionChains, k \in Connectors : ConnectSucceeds(a, c, k)
  \/ ConnectFails
  \/ \E a \in Accounts : AccountChanged(a)
  \/ \E c \in SessionChains : ChainChanged(c)
  \/ ConnectorDisconnected
  \/ \E t \in Tabs : SelectTab(t)
  \/ disconnect
  \/ TeardownCompletes
  \/ TeardownFails
  \/ \E by \in {"NetworkSwitcher", "CounterContract"}, c \in SupportedChainIds :
       SwitchClicked(by, c)
  \/ SwitchSucceeds
  \/ \E e \in SwitchFailures : SwitchFails(e)
  \/ SwitchUnsupported
  \/ SwitchAbandoned

SpecWallet == WalletInit /\ [][WalletNext]_vars

----------------------------------------------------------------------------
(* The wallet session across page loads: WagmiProvider reconnectOnMount    *)

\* the status the chain client sets when it reconnects on every status
ReconnectStatus_Always(current) == "reconnecting"

\* the status the chain client sets when it starts to reconnect on mount:
\* 'reconnecting' when its persisted state names a current connection, else
\* 'connecting'
ReconnectStatus(current) == IF current THEN "reconnecting" ELSE "connecting"

\* the page is loaded again: the chain client restores its persisted current
\* connection (the account of a connected session) and reconnects; the state
\* of the components starts over, and the first render of useWallet runs the
\* persist effect with isConnected = !!address
PageReloaded ==
  /\ accStatus' = ReconnectStatus(accStatus \in {"connected", "reconnecting"})
  /\ IF accStatus \in {"connected", "reconnecting"}
       THEN /\ UNCHANGED <<accAddress, accChain, accConnector>>
            /\ snapshot' = IF accChain # NoChain
                           THEN setLastConnected(accAddress, accChain, accConnector.id)
                           ELSE snapshot
       ELSE /\ accAddress' = Empty /\ accChain' = NoChain /\ accConnector' = NoConnector
            /\ UNCHANGED snapshot
  /\ teardown' = "none" /\ tab' = "balances"
  /\ switching' = NoSwitch /\ switchError' = NoError
  /\ UNCHANGED <<outsideWallet, log, userActs>>

\* the connector is still authorized: the session is connected again
ReconnectSucceeds ==
  /\ accStatus = "reconnecting"
  /\ SessionBecomes("connected", accAddress, accChain, accConnector)
  /\ UNCHANGED <<outsideWallet, log, userActs, teardown, switching, switchError>>

\* no connector is authorized any more: the connections are dropped
ReconnectFails ==
  /\ accStatus = "reconnecting"
  /\ SessionBecomes("disconnected", Empty, NoChain, NoConnector)
  /\ UNCHANGED <<outsideWallet, log, userActs, teardown, switching, switchError>>

SessionNext == WalletNext \/ PageReloaded \/ ReconnectSucceeds \/ ReconnectFails

SpecSession == WalletInit /\ [][SessionNext]_vars

----------------------------------------------------------------------------
(* parseWeb3Error and createWeb3Error applied to failure values            *)

\* number of text fragments a failure message is put together from
MaxFragments == 2

\* fragments of failure messages: the words the rules look for, in the
\* spellings wallets and RPC nodes use, and two words no rule looks for
Fragments == {F_UserRejected, F_UserDenied, F_UserCancelled, F_InsufficientFunds, F_InsufficientBalance, F_Network, F_Timeout, F_Fetch, F_Revert, F_ExecutionReverted, F_Reason, F_Gas, F_InvalidAddress, F_Nonce, F_Failed, F_Hello}

\* the messages made of at most n fragments, joined by a blank
RECURSIVE MessagesUpTo(_)
MessagesUpTo(n) ==
  IF n = 0 THEN {<<>>}
  ELSE LET shorter == MessagesUpTo(n - 1)
       IN shorter \cup Fragments
            \cup {m \o <<" ">> \o f : m \in shorter \ {<<>>}, f \in Fragments}

\* values a catch block can hand to parseWeb3Error
FailureInputs ==
  {ErrorOf(m) : m \in MessagesUpTo(MaxFragments)}
    \cup {[tag |-> "null", name |-> "", message |-> <<>>],
          [tag |-> "undefined", name |-> "", message |-> <<>>],
          [tag |-> "number", name |-> "", message |-> <<"0">>],
          [tag |-> "number", name |-> "", message |-> <<"4","2">>],
          [tag |-> "object", name |-> "", message |-> <<>>],
          [tag |-> "object", name |-> "", message |-> F_Hello],
          [tag |-> "string", name |-> "", message |-> <<>>],
          [tag |-> "string", name |-> "", message |-> F_Hello]}

\* the forms and the wallet as they are before any user gesture
FormsQuiet ==
  /\ recipient = Empty /\ amount = Empty /\ tokenAddress = Empty
  /\ txHash = NoHash
  /\ mutStatus = "idle" /\ mutData = NoHash /\ mutError = NoError
  /\ rcptStatus = [h \in Hashes |-> "none"]
  /\ rcptError = [h \in Hashes |-> NoError]
  /\ optionsRef = 0
  /\ prevDeps = SendDeps(NoHash, [h \in Hashes |-> "none"], [h \in Hashes |-> NoError], 0)
  /\ log = <<>>
  /\ issued = 0
  /\ userActs = 0

AppQuiet == FormsQuiet /\ WalletQuiet /\ CounterQuiet /\ PanelQuiet

ClassifyInit ==
  /\ AppQuiet
  /\ callArgs \in {<<e>> : e \in FailureInputs}
  /\ callResult = NotCalled

\* parseWeb3Error(error)
ApplyParseWeb3Error ==
  /\ callResult.fn = ""
  /\ callResult' = [fn |-> "parseWeb3Error", type |-> "",
                    value |-> parseWeb3Error(callArgs[1])]
  /\ UNCHANGED <<lifecycleVars, walletVars, counterVars, panelVars, log, userActs, callArgs>>

\* createWeb3Error(error)
ApplyCreateWeb3Error ==
  /\ callResult.fn = ""
  /\ callResult' = [fn |-> "createWeb3Error",
                    type |-> createWeb3Error(callArgs[1]).type,
                    value |-> createWeb3Error(callArgs[1]).message]
  /\ UNCHANGED <<lifecycleVars, walletVars, counterVars, panelVars, log, userActs, callArgs>>

ClassifyNext == ApplyParseWeb3Error \/ ApplyCreateWeb3Error

SpecClassify == ClassifyInit /\ [][ClassifyNext]_vars

----------------------------------------------------------------------------
(* CounterContract inside ConnectedContent                                 *)

\* bound on the getValue reads of a behaviour
MaxReads == 2

\* bound on the clicks on Increment / Decrement of a behaviour
MaxCounterActs == 2

\* AppContent renders ConnectedContent only while isConnected, and the
\* content of the Contracts tab is CounterContract
CounterMounted(status, t) == IsConnected(status) /\ t = "contracts"

\* enabled of the getValue query
CounterReadEnabled(status) == IsConnected(status)

\* isCorrectNetwork without the comparison
IsCorrectNetwork_AnyChain(chainId) == TRUE

\* isCorrectNetwork
IsCorrectNetwork(chainId) == chainId = REQUIRED_CHAIN_ID

\* dependency arrays of the two effects of CounterContract; hash is the data
\* of useWriteContract
CounterDeps(h, we, rs, re) ==
  [confirmed |-> <<IsConfirmed(h, rs), h>>,
   failed    |-> <<we, ConfirmError(h, rs, re), h>>]

\* the effect on [isConfirmed, hash, refetchValue]
CounterConfirmedEffect(h, rs) ==
  IF IsConfirmed(h, rs)
    THEN << Entry("dismiss", "", <<>>, h, h),
            Entry("success", "Transaction Confirmed!", <<>>, NoHash, h),
            Entry("read", "getValue", <<>>, NoHash, h) >>
    ELSE <<>>

\* the effect on [writeError, confirmError, hash]
CounterErrorEffect(h, we, rs, re) ==
  (IF we # NoError
     THEN (IF h # NoHash THEN << Entry("dismiss", "", <<>>, h, h) >> ELSE <<>>)
          \o << Entry("error", "Transaction Failed", parseWeb3Error(we), NoHash, h) >>
     ELSE <<>>)
  \o (IF ConfirmError(h, rs, re) # NoError
        THEN << Entry("dismiss", "", <<>>, h, h),
                Entry("error", "Confirmation Failed", ConfirmError(h, rs, re).message,
                      NoHash, h) >>
        ELSE <<>>)

\* the effects that run in a render whose previous dependency arrays are pd
CounterRenderEffects(h, we, rs, re, pd) ==
  LET d == CounterDeps(h, we, rs, re)
  IN (IF d.confirmed # pd.confirmed THEN CounterConfirmedEffect(h, rs) ELSE <<>>)
     \o (IF d.failed # pd.failed THEN CounterErrorEffect(h, we, rs, re) ELSE <<>>)

\* number of getValue reads among entries
CountReads(entries) == Cardinality({i \in DOMAIN entries : entries[i].op = "read"})

\* a render of the mounted CounterContract after the state named by the
\* primed variables has been set; entries are what the handler appended
CounterRender(entries) ==
  LET ran == entries \o CounterRenderEffects(mutData', mutError', rcptStatus', rcptError',
                                              prevDeps)
  IN /\ prevDeps' = CounterDeps(mutData', mutError', rcptStatus', rcptError')
     /\ log' = log \o ran
     /\ reads' = reads + CountReads(ran)

\* CounterContract unmounts: the state of its hooks is gone
CounterUnmount ==
  /\ mutStatus' = "idle" /\ mutData' = NoHash /\ mutError' = NoError
  /\ prevDeps' = CounterDeps(NoHash, NoError, rcptStatus, rcptError)
  /\ UNCHANGED <<rcptStatus, rcptError, log, reads>>

CounterInit == AppQuiet /\ PureQuiet

\* the wallet connects: ConnectedContent mounts with the Balances tab
CounterWalletConnects(address, chainId, connector) ==
  /\ ~IsConnected(accStatus)
  /\ SessionBecomes("connected", address, chainId, connector)
  /\ UNCHANGED <<lifecycleVars, pureVars, panelVars, counterVars, log, userActs, teardown, switching,
                 switchError>>

\* the wallet reports another chain
CounterChainChanged(chainId) ==
  /\ IsConnected(accStatus) /\ chainId # accChain
  /\ SessionBecomes(accStatus, accAddress, chainId, accConnector)
  /\ UNCHANGED <<lifecycleVars, pureVars, panelVars, counterVars, log, userActs, teardown, switching,
                 switchError>>

\* the session ends: AppContent replaces ConnectedContent by WelcomeScreen
CounterWalletDisconnects ==
  /\ IsConnected(accStatus)
  /\ SessionBecomes("disconnected", Empty, NoChain, NoConnector)
  /\ CounterUnmount
  /\ UNCHANGED <<recipient, amount, tokenAddress, txHash, optionsRef, issued, pureVars, panelVars,
                 userActs, teardown, switching, switchError>>

\* the Contracts tab is opened: CounterContract mounts, its effects run and
\* the enabled getValue query fetches
CounterOpenTab ==
  /\ IsConnected(accStatus) /\ tab # "contracts"
  /\ reads < MaxReads
  /\ tab' = "contracts"
  /\ snapshot' = PersistEffect(accStatus, accAddress, accChain, accConnector, snapshot)
  /\ mutStatus' = "idle" /\ mutData' = NoHash /\ mutError' = NoError
  /\ CounterRender(IF CounterReadEnabled(accStatus)
                     THEN << Entry("read", "getValue", <<>>, NoHash, NoHash) >>
                     ELSE <<>>)
  /\ UNCHANGED <<recipient, amount, tokenAddress, txHash, rcptStatus, rcptError, optionsRef,
                 issued, pureVars, panelVars, userActs, accStatus, accAddress, accChain, accConnector,
                 teardown, switching, switchError>>

\* another tab is opened: CounterContract unmounts
CounterLeaveTab(t) ==
  /\ CounterMounted(accStatus, tab) /\ t # tab
  /\ tab' = t
  /\ snapshot' = IF MountsUseWallet(t)
                 THEN PersistEffect(accStatus, accAddress, accChain, accConnector, snapshot)
                 ELSE snapshot
  /\ CounterUnmount
  /\ UNCHANGED <<recipient, amount, tokenAddress, txHash, optionsRef, issued, pureVars, panelVars,
                 userActs, accStatus, accAddress, accChain, accConnector, teardown, switching,
                 switchError>>

\* what the steps of the mounted panel leave alone
outsideCounter == <<recipient, amount, tokenAddress, txHash, optionsRef, walletVars, pureVars,
                    panelVars>>

\* refetchInterval: 3000 of the getValue query
CounterTick ==
  /\ CounterMounted(accStatus, tab) /\ CounterReadEnabled(accStatus)
  /\ reads < MaxReads
  /\ UNCHANGED <<mutStatus, mutData, mutError, rcptStatus, rcptError, issued, userActs>>
  /\ CounterRender(<< Entry("read", "getValue", <<>>, NoHash, NoHash) >>)
  /\ UNCHANGED outsideCounter

\* onLogs of a useWatchContractEvent (enabled: isCorrectNetwork)
CounterEventLogged ==
  /\ CounterMounted(accStatus, tab) /\ IsCorrectNetwork(accChain)
  /\ reads < MaxReads
  /\ UNCHANGED <<mutStatus, mutData, mutError, rcptStatus, rcptError, issued, userActs>>
  /\ CounterRender(<< Entry("success", "Counter Incremented!", <<>>, NoHash, NoHash),
                      Entry("read", "getValue", <<>>, NoHash, NoHash) >>)
  /\ UNCHANGED outsideCounter

\* handleIncrement / handleDecrement, reached through a button that is
\* disabled while isLoading || !isConnected || !isCorrectNetwork
CounterHandleWrite ==
  /\ CounterMounted(accStatus, tab) /\ IsCorrectNetwork(accChain)
  /\ ~(IsPending(mutStatus) \/ IsConfirming(mutData, rcptStatus))
  /\ userActs < MaxCounterActs /\ issued < MaxAttempts
  /\ userActs' = userActs + 1
  /\ mutStatus' = "pending" /\ mutData' = NoHash /\ mutError' = NoError
  /\ UNCHANGED <<rcptStatus, rcptError, issued>>
  /\ CounterRender(<< Entry("call", "writeContractAsync", <<>>, NoHash, NoHash) >>)
  /\ UNCHANGED outsideCounter

\* writeContractAsync resolves with the hash: toast.loading keyed by it
CounterAccepted ==
  /\ CounterMounted(accStatus, tab) /\ IsPending(mutStatus)
  /\ issued' = issued + 1
  /\ mutStatus' = "success" /\ mutData' = issued + 1 /\ mutError' = NoError
  /\ rcptStatus' = [rcptStatus EXCEPT ![issued + 1] = "loading"]
  /\ UNCHANGED <<rcptError, userActs>>
  /\ CounterRender(<< Entry("loading", "Transaction Submitted", <<>>, issued + 1, issued + 1) >>)
  /\ UNCHANGED outsideCounter

\* writeContractAsync rejects: the catch block logs to the console
CounterRejected(error) ==
  /\ CounterMounted(accStatus, tab) /\ IsPending(mutStatus)
  /\ mutStatus' = "error" /\ mutError' = error
  /\ UNCHANGED <<mutData, rcptStatus, rcptError, issued, userActs>>
  /\ CounterRender(<<>>)
  /\ UNCHANGED outsideCounter

\* useWaitForTransactionReceipt({ hash }) obtains the receipt
CounterReceiptSuccess ==
  /\ CounterMounted(accStatus, tab) /\ IsConfirming(mutData, rcptStatus)
  /\ reads < MaxReads
  /\ rcptStatus' = [rcptStatus EXCEPT ![mutData] = "success"]
  /\ UNCHANGED <<mutStatus, mutData, mutError, rcptError, issued, userActs>>
  /\ CounterRender(<<>>)
  /\ UNCHANGED outsideCounter

\* useWaitForTransactionReceipt({ hash }) fails
CounterReceiptFailure(error) ==
  /\ CounterMounted(accStatus, tab) /\ IsConfirming(mutData, rcptStatus)
  /\ rcptStatus' = [rcptStatus EXCEPT ![mutData] = "error"]
  /\ rcptError' = [rcptError EXCEPT ![mutData] = error]
  /\ UNCHANGED <<mutStatus, mutData, mutError, issued, userActs>>
  /\ CounterRender(<<>>)
  /\ UNCHANGED outsideCounter

\* failures of the two stages that the panel is driven with
CounterSubmitFailures == {ErrorOf(MsgUserRejected)}
CounterConfirmFailures == {ErrorOf(MsgRevertUnderflow)}

CounterNext ==
  \/ \E c \in SupportedChainIds : CounterWalletConnects(AddrValid, c, ConnectorMetaMask)
  \/ \E c \in SupportedChainIds : CounterChainChanged(c)
  \/ CounterWalletDisconnects
  \/ CounterOpenTab
  \/ \E t \in Tabs : CounterLeaveTab(t)
  \/ CounterTick
  \/ CounterEventLogged
  \/ CounterHandleWrite
  \/ CounterAccepted
  \/ \E e \in CounterSubmitFailures : CounterRejected(e)
  \/ CounterReceiptSuccess
  \/ \E e \in CounterConfirmFailures : CounterReceiptFailure(e)

SpecCounter == CounterInit /\ [][CounterNext]_vars

\* handleIncrement / handleDecrement run while isCorrectNetwork is false (the
\* buttons are disabled then, so the request does not come from a click on
\* them): the handler returns after its notification
CounterHandleWrongNetwork ==
  /\ CounterMounted(accStatus, tab) /\ ~IsCorrectNetwork(accChain)
  /\ userActs < MaxCounterActs
  /\ userActs' = userActs + 1
  /\ UNCHANGED <<mutStatus, mutData, mutError, rcptStatus, rcptError, issued>>
  /\ CounterRender(<< Entry("error", "Wrong Network", <<>>, NoHash, NoHash) >>)
  /\ UNCHANGED outsideCounter

CounterHandlersNext == CounterNext \/ CounterHandleWrongNetwork

SpecCounterHandlers == CounterInit /\ [][CounterHandlersNext]_vars

----------------------------------------------------------------------------
(* formatAddress and formatTxHash                                          *)

\* bound on the startChars and endChars that formatAddress is called with
MaxChars == 3

\* defaults of startChars and endChars
DefaultStartChars == 6
DefaultEndChars == 4

\* the arguments formatTxHash passes on
TxHashStartChars == 10
TxHashEndChars == 8

\* '...'
Dots == <<".", ".", ".">>

\* '0x' followed by 64 times 'a'
HashAllA == <<"0", "x">> \o [i \in 1..64 |-> "a"]

MinNat(a, b) == IF a < b THEN a ELSE b
MaxNat(a, b) == IF a > b THEN a ELSE b

\* String.prototype.slice(0, end) for end >= 0
SliceTo(s, end) == SubSeq(s, 1, MinNat(end, Len(s)))

\* String.prototype.slice(-n) for n >= 0: -0 is 0, so slice(-0) is the whole
\* string
SliceLast(s, n) == IF n = 0 THEN s ELSE SubSeq(s, MaxNat(Len(s) - n, 0) + 1, Len(s))

\* an address argument: a string or undefined
TextArg(s) == [tag |-> "string", text |-> s]
UndefinedArg == [tag |-> "undefined", text |-> <<>>]

formatAddress(address, startChars, endChars) ==
  IF address.tag = "undefined" \/ address.text = <<>> THEN <<>>
  ELSE IF Len(address.text) < startChars + endChars THEN address.text
  ELSE SliceTo(address.text, startChars) \o Dots \o SliceLast(address.text, endChars)

formatTxHash(hash) == formatAddress(hash, TxHashStartChars, TxHashEndChars)

FormatTexts == {<<>>, <<"a", "b">>, AddrShort, AddrValid, HashAllA}

FormatInputs ==
  {<<a, h, t>> : a \in {TextArg(s) : s \in FormatTexts} \cup {UndefinedArg},
                 h \in 0..MaxChars, t \in 0..MaxChars}

FormatInit ==
  /\ AppQuiet
  /\ callArgs \in FormatInputs
  /\ callResult = NotCalled

\* formatAddress(address, startChars, endChars)
ApplyFormatAddress ==
  /\ callResult.fn = ""
  /\ callResult' = [fn |-> "formatAddress", type |-> "",
                    value |-> formatAddress(callArgs[1], callArgs[2], callArgs[3])]
  /\ UNCHANGED <<lifecycleVars, walletVars, counterVars, panelVars, log, userActs, callArgs>>

\* formatAddress(address)
ApplyFormatAddressDefaults ==
  /\ callResult.fn = ""
  /\ callResult' = [fn |-> "formatAddress()", type |-> "",
                    value |-> formatAddress(callArgs[1], DefaultStartChars, DefaultEndChars)]
  /\ UNCHANGED <<lifecycleVars, walletVars, counterVars, panelVars, log, userActs, callArgs>>

\* formatTxHash(hash)
ApplyFormatTxHash ==
  /\ callResult.fn = ""
  /\ callResult' = [fn |-> "formatTxHash", type |-> "", value |-> formatTxHash(callArgs[1])]
  /\ UNCHANGED <<lifecycleVars, walletVars, counterVars, panelVars, log, userActs, callArgs>>

FormatNext == ApplyFormatAddress \/ ApplyFormatAddressDefaults \/ ApplyFormatTxHash

SpecFormat == FormatInit /\ [][FormatNext]_vars

----------------------------------------------------------------------------
(* isValidAddress, isValidTxHash and parseTokenAmount                      *)

\* bound on the decimals that parseTokenAmount is called with, beside the default
MaxDecimals == 2

\* a run of n times the character c, with the character d at its first or
\* last position
HexBody(n, c, at, d) ==
  [i \in 1..n |-> IF (at = "first" /\ i = 1) \/ (at = "last" /\ i = n) THEN d ELSE c]

\* strings around the two accepted shapes: the lengths next to 40 and 64, the
\* prefixes '0x', '0X' and none, hex digits of both cases and other characters
ValidatorTexts ==
  {pre \o HexBody(n, c, at, d) :
     pre \in {<<"0", "x">>, <<"0", "X">>, <<>>},
     n \in {AddressHexLen - 1, AddressHexLen, AddressHexLen + 1,
            TxHashHexLen - 1, TxHashHexLen, TxHashHexLen + 1},
     c \in {"a", "F", "7"}, at \in {"first", "last"}, d \in {"b", "g", "Z", " "}}
  \cup {Empty, AddrValid, AddrSecond, AddrNonHex, AddrShort}

\* the amount strings parseTokenAmount is called with: text is the string;
\* decimal says whether it is a decimal number, and then negative, int and
\* frac are its sign, the digits before and the digits after the point
AmountCase(text, decimal, negative, int, frac) ==
  [text |-> text, decimal |-> decimal, negative |-> negative, int |-> int, frac |-> frac]

AmountCases ==
  {AmountCase(AmtOnePointFive, TRUE, FALSE, <<"1">>, <<"5">>),
   AmountCase(AmtZero, TRUE, FALSE, <<"0">>, <<>>),
   AmountCase(AmtNegative, TRUE, TRUE, <<"1">>, <<>>),
   AmountCase(AmtZeroFrac, TRUE, FALSE, <<"0">>, <<"0">>),
   AmountCase(<<"0", "0", "7">>, TRUE, FALSE, <<"0", "0", "7">>, <<>>),
   AmountCase(<<"1", ".">>, TRUE, FALSE, <<"1">>, <<>>),
   AmountCase(<<".", "5">>, TRUE, FALSE, <<>>, <<"5">>),
   AmountCase(<<"-", "2", ".", "5", "0">>, TRUE, TRUE, <<"2">>, <<"5", "0">>),
   AmountCase(<<"1", "2", ".", "3", "4">>, TRUE, FALSE, <<"1", "2">>, <<"3", "4">>),
   AmountCase(<<"0", ".", "9", "9", "5">>, TRUE, FALSE, <<"0">>, <<"9", "9", "5">>),
   AmountCase(AmtLetters, FALSE, FALSE, <<>>, <<>>),
   AmountCase(AmtExponent, FALSE, FALSE, <<>>, <<>>),
   AmountCase(Empty, FALSE, FALSE, <<>>, <<>>),
   AmountCase(<<".">>, FALSE, FALSE, <<>>, <<>>),
   AmountCase(<<"-">>, FALSE, FALSE, <<>>, <<>>),
   AmountCase(<<" ", "1">>, FALSE, FALSE, <<>>, <<>>),
   AmountCase(<<"1", ",", "5">>, FALSE, FALSE, <<>>, <<>>),
   AmountCase(<<"1", ".", "2", ".", "3">>, FALSE, FALSE, <<>>, <<>>),
   AmountCase(<<"0", "x", "1", "0">>, FALSE, FALSE, <<>>, <<>>)}

InputsInit ==
  /\ AppQuiet
  /\ callArgs \in {<<s>> : s \in ValidatorTexts}
                    \cup {<<c.text, d>> : c \in AmountCases,
                                          d \in (0..MaxDecimals) \cup {DefaultDecimals}}
  /\ callResult = NotCalled

\* isValidAddress(address)
ApplyIsValidAddress ==
  /\ callResult.fn = "" /\ Len(callArgs) = 1
  /\ callResult' = [fn |-> "isValidAddress", type |-> "boolean",
                    value |-> isValidAddress(callArgs[1])]
  /\ UNCHANGED <<lifecycleVars, walletVars, counterVars, panelVars, log, userActs, callArgs>>

\* isValidTxHash(hash)
ApplyIsValidTxHash ==
  /\ callResult.fn = "" /\ Len(callArgs) = 1
  /\ callResult' = [fn |-> "isValidTxHash", type |-> "boolean",
                    value |-> isValidTxHash(callArgs[1])]
  /\ UNCHANGED <<lifecycleVars, walletVars, counterVars, panelVars, log, userActs, callArgs>>

\* parseTokenAmount(value, decimals), and parseTokenAmount(value) where the
\* decimals argument is the default
ApplyParseTokenAmount ==
  /\ callResult.fn = "" /\ Len(callArgs) = 2
  /\ callResult' = [fn |-> "parseTokenAmount", type |-> "bigint",
                    value |-> parseTokenAmount(callArgs[1], callArgs[2])]
  /\ UNCHANGED <<lifecycleVars, walletVars, counterVars, panelVars, log, userActs, callArgs>>

InputsNext == ApplyIsValidAddress \/ ApplyIsValidTxHash \/ ApplyParseTokenAmount

SpecInputs == InputsInit /\ [][InputsNext]_vars

----------------------------------------------------------------------------
(* useCurrentGasPrice and useGasPrices                                     *)

\* bound on the gas price (in wei) the chain client reports
MaxGasPrice == 130

\* the multipliers of useGasPrices
SlowPercent == 80
FastPercent == 120
PercentBase == 100

\* data of useGasPrice: a bigint, or undefined while none has been fetched
GasPriceData(n) == [tag |-> "bigint", n |-> n]
NoGasPrice == [tag |-> "undefined", n |-> 0]

\* gasPrice of useCurrentGasPrice: gasPrice || 0n
useCurrentGasPrice(data) == IF data.tag = "undefined" \/ data.n = 0 THEN 0 ELSE data.n

\* the prices with the two multipliers exchanged
GasPricesOf_Exchanged(gasPrice) ==
  IF gasPrice = 0 THEN <<0, 0, 0>>
  ELSE << (gasPrice * FastPercent) \div PercentBase,
          gasPrice,
          (gasPrice * SlowPercent) \div PercentBase >>

\* <<slow, standard, fast>> of the useMemo of useGasPrices; bigint division
\* truncates, and the operands are not negative
GasPricesOf(gasPrice) ==
  IF gasPrice = 0 THEN <<0, 0, 0>>
  ELSE << (gasPrice * SlowPercent) \div PercentBase,
          gasPrice,
          (gasPrice * FastPercent) \div PercentBase >>

useGasPrices(data) == GasPricesOf(useCurrentGasPrice(data))

GasInit ==
  /\ AppQuiet
  /\ callArgs \in {<<GasPriceData(n)>> : n \in 0..MaxGasPrice} \cup {<<NoGasPrice>>}
  /\ callResult = NotCalled

\* a render of a component that calls useCurrentGasPrice()
ApplyUseCurrentGasPrice ==
  /\ callResult.fn = ""
  /\ callResult' = [fn |-> "useCurrentGasPrice", type |-> "bigint",
                    value |-> <<useCurrentGasPrice(callArgs[1])>>]
  /\ UNCHANGED <<lifecycleVars, walletVars, counterVars, panelVars, log, userActs, callArgs>>

\* a render of a component that calls useGasPrices()
ApplyUseGasPrices ==
  /\ callResult.fn = ""
  /\ callResult' = [fn |-> "useGasPrices", type |-> "bigint",
                    value |-> useGasPrices(callArgs[1])]
  /\ UNCHANGED <<lifecycleVars, walletVars, counterVars, panelVars, log, userActs, callArgs>>

GasNext == ApplyUseCurrentGasPrice \/ ApplyUseGasPrices

SpecGas == GasInit /\ [][GasNext]_vars

----------------------------------------------------------------------------
(* copyToClipboard and the Copy Address item of WalletConnect              *)

\* bound on the clicks on Copy Address of a behaviour
MaxCopies == 3

\* what document.execCommand('copy') does: it returns true or false, or an
\* exception is thrown on the way (createElement, appendChild, select, ...)
ExecOutcomes == {"true", "false", "throws"}

\* the condition of the first tier: navigator.clipboard && window.isSecureContext
NativeClipboardUsable_ApiOnly(env) == env.api
NativeClipboardUsable(env) == env.api /\ env.secure

\* the fallback tier of copyToClipboard and, after its promise has settled,
\* the rest of handleCopyAddress
FallbackAndNotify(outcome) ==
  << Entry("call", "execCommand", <<outcome>>, NoHash, NoHash),
     IF outcome = "true"
       THEN Entry("success", "Address copied to clipboard", <<>>, NoHash, NoHash)
       ELSE Entry("error", "Failed to copy address", <<>>, NoHash, NoHash) >>

\* the dropdown with Copy Address is rendered for a connected wallet
ClipboardInit ==
  /\ FormsQuiet /\ PureQuiet /\ CounterQuiet
  /\ accStatus = "connected" /\ accAddress = AddrValid /\ accChain = ChainMainnet
  /\ accConnector = ConnectorMetaMask
  /\ snapshot = setLastConnected(AddrValid, ChainMainnet, ConnectorMetaMask.id)
  /\ teardown = "none" /\ tab = "balances"
  /\ switching = NoSwitch /\ switchError = NoError
  /\ clipboardEnv \in [api : BOOLEAN, secure : BOOLEAN] /\ copyInflight = 0
  /\ modalOpen = FALSE /\ clickedWallet = "" /\ installed = {} /\ connectors = <<>>
  /\ tokenURI = "" /\ metadata = "" /\ isLoadingMetadata = FALSE /\ fetches = <<>>

\* handleCopyAddress up to its await: copyToClipboard(address) either starts
\* navigator.clipboard.writeText or runs the fallback at once
handleCopyAddress(outcome) ==
  /\ IsConnected(accStatus) /\ accAddress # Empty
  /\ userActs < MaxCopies
  /\ userActs' = userActs + 1
  /\ IF NativeClipboardUsable(clipboardEnv)
       THEN /\ log' = log \o << Entry("call", "copyToClipboard", <<>>, NoHash, NoHash),
                                Entry("call", "writeText", <<>>, NoHash, NoHash) >>
            /\ copyInflight' = copyInflight + 1
       ELSE /\ log' = log \o << Entry("call", "copyToClipboard", <<>>, NoHash, NoHash) >>
                          \o FallbackAndNotify(outcome)
            /\ UNCHANGED copyInflight
  /\ UNCHANGED <<lifecycleVars, walletVars, pureVars, counterVars, clipboardEnv, modalOpen,
                 clickedWallet, installed, connectors, tokenURI, metadata, isLoadingMetadata, fetches>>

\* navigator.clipboard.writeText resolves: copyToClipboard returns and
\* handleCopyAddress shows the success notification
WriteTextResolves ==
  /\ copyInflight > 0
  /\ copyInflight' = copyInflight - 1
  /\ log' = Append(log, Entry("success", "Address copied to clipboard", <<>>, NoHash, NoHash))
  /\ UNCHANGED <<lifecycleVars, walletVars, pureVars, counterVars, userActs, clipboardEnv,
                 modalOpen, clickedWallet, installed, connectors, tokenURI, metadata, isLoadingMetadata, fetches>>

\* navigator.clipboard.writeText rejects: console.warn, then the fallback
WriteTextRejects(outcome) ==
  /\ copyInflight > 0
  /\ copyInflight' = copyInflight - 1
  /\ log' = log \o << Entry("warn", "Clipboard API failed, using fallback:", <<>>,
                            NoHash, NoHash) >>
                \o FallbackAndNotify(outcome)
  /\ UNCHANGED <<lifecycleVars, walletVars, pureVars, counterVars, userActs, clipboardEnv,
                 modalOpen, clickedWallet, installed, connectors, tokenURI, metadata, isLoadingMetadata, fetches>>

ClipboardNext ==
  \/ \E o \in ExecOutcomes : handleCopyAddress(o)
  \/ WriteTextResolves
  \/ \E o \in ExecOutcomes : WriteTextRejects(o)

SpecClipboard == ClipboardInit /\ [][ClipboardNext]_vars

----------------------------------------------------------------------------
(* WalletConnectModal                                                      *)

\* bound on the clicks on the modal of a behaviour
MaxModalActs == 3

\* three of WALLET_OPTIONS: [id, name, downloadUrl]
WalletOptions ==
  {[id |-> "metamask", name |-> "MetaMask", downloadUrl |-> "https://metamask.io/download/"],
   [id |-> "coinbase", name |-> "Coinbase Wallet",
    downloadUrl |-> "https://www.coinbase.com/wallet/downloads"],
   [id |-> "trust", name |-> "Trust Wallet", downloadUrl |-> "https://trustwallet.com/download"]}

\* the connector the chain client discovers for the Coinbase Wallet extension
ConnectorCoinbase == [id |-> "com.coinbase.wallet", name |-> "Coinbase Wallet", canSwitch |-> TRUE]

\* the connector lists of a browser with none, one or both of the extensions
ConnectorLists ==
  {<<>>, <<ConnectorMetaMask>>, <<ConnectorCoinbase>>,
   <<ConnectorMetaMask, ConnectorCoinbase>>, <<ConnectorCoinbase, ConnectorMetaMask>>}

\* the browser: a wallet marked installed has its connector in the list
ModalInit ==
  /\ FormsQuiet /\ WalletQuiet /\ PureQuiet /\ CounterQuiet
  /\ clipboardEnv = [api |-> TRUE, secure |-> TRUE] /\ copyInflight = 0
  /\ modalOpen = FALSE /\ clickedWallet = ""
  /\ connectors \in ConnectorLists
  /\ installed \in SUBSET {w.id : w \in {o \in WalletOptions :
                                           \E i \in DOMAIN connectors : connectors[i].name = o.name}}
  /\ tokenURI = "" /\ metadata = "" /\ isLoadingMetadata = FALSE /\ fetches = <<>>

\* what the steps of the modal leave alone
outsideModal == <<lifecycleVars, pureVars, counterVars, clipboardEnv, copyInflight, installed,
                  connectors, tokenURI, metadata, isLoadingMetadata, fetches, teardown,
                  switching, switchError>>

\* the Connect Wallet button of WalletConnect: setIsModalOpen(true)
OpenModal ==
  /\ ~IsConnected(accStatus) /\ ~modalOpen
  /\ userActs < MaxModalActs
  /\ userActs' = userActs + 1
  /\ modalOpen' = TRUE
  /\ UNCHANGED <<outsideModal, log, clickedWallet, accStatus, accAddress, accChain,
                 accConnector, snapshot, tab>>

\* the connector handleConnect takes: connectors[0]
ConnectorTaken(walletId, list) == IF list = <<>> THEN NoConnector ELSE list[1]

\* handleClick of WalletButton (disabled while isPending) and, for an
\* installed wallet, handleConnect(wallet.id): connect({ connector }) starts
\* the request and returns, so the rest of the try block runs at once
WalletButtonClicked(wallet) ==
  /\ ~IsConnected(accStatus) /\ modalOpen /\ accStatus # "connecting"
  /\ userActs < MaxModalActs
  /\ userActs' = userActs + 1
  /\ clickedWallet' = wallet.id
  /\ IF wallet.id \in installed
       THEN IF ConnectorTaken(wallet.id, connectors) # NoConnector
              THEN /\ SessionBecomes("connecting", Empty, NoChain, NoConnector)
                   /\ modalOpen' = FALSE
                   /\ log' = log \o
                        << Entry("call", "connect",
                                 <<ConnectorTaken(wallet.id, connectors).id>>, NoHash, NoHash),
                           Entry("success", "Connected successfully!", <<>>, NoHash, NoHash) >>
              ELSE /\ log' = Append(log, Entry("error", "No connector available", <<>>,
                                               NoHash, NoHash))
                   /\ UNCHANGED <<modalOpen, accStatus, accAddress, accChain, accConnector,
                                  snapshot, tab>>
       ELSE /\ log' = Append(log, Entry("open", "window.open", <<wallet.downloadUrl>>,
                                        NoHash, NoHash))
            /\ UNCHANGED <<modalOpen, accStatus, accAddress, accChain, accConnector,
                           snapshot, tab>>
  /\ UNCHANGED outsideModal

\* the connector of the request in flight: the one of the last connect call
RequestedConnector ==
  LET calls == {i \in DOMAIN log : log[i].op = "call" /\ log[i].title = "connect"}
      last  == CHOOSE i \in calls : \A j \in calls : j <= i
  IN connectors[CHOOSE i \in DOMAIN connectors : connectors[i].id = log[last].desc[1]]

\* the user approves the request in the wallet
ModalConnectSucceeds(address, chainId) ==
  /\ accStatus = "connecting"
  /\ SessionBecomes("connected", address, chainId, RequestedConnector)
  /\ UNCHANGED <<outsideModal, log, userActs, modalOpen, clickedWallet>>

\* the user rejects the request, or the connection fails: the mutation of
\* useConnect keeps the error, connect() has returned long ago
ModalConnectFails ==
  /\ accStatus = "connecting"
  /\ SessionBecomes("disconnected", Empty, NoChain, NoConnector)
  /\ UNCHANGED <<outsideModal, log, userActs, modalOpen, clickedWallet>>

\* the wallet ends the session: WalletConnect shows its button again
ModalSessionEnds ==
  /\ IsConnected(accStatus)
  /\ SessionBecomes("disconnected", Empty, NoChain, NoConnector)
  /\ UNCHANGED <<outsideModal, log, userActs, modalOpen, clickedWallet>>

ModalNext ==
  \/ OpenModal
  \/ \E w \in WalletOptions : WalletButtonClicked(w)
  \/ \E a \in Accounts, c \in SupportedChainIds : ModalConnectSucceeds(a, c)
  \/ ModalConnectFails
  \/ ModalSessionEnds

SpecModal == ModalInit /\ [][ModalNext]_vars

----------------------------------------------------------------------------
(* useNFT of hooks/web3/useNFTPortfolio.ts: the metadata of one token      *)

MaxFetches == 3

\* token URIs the tokenURI read can return
TokenURIs == {"ipfs://a", "https://b"}

\* fetchMetadata: the URL requested, ipfs:// rewritten to the public gateway
MetadataUrl(uri) == IF uri = "ipfs://a" THEN "https://ipfs.io/ipfs/a" ELSE uri

\* fetchMetadata: the document at the URL, or null ("") when the response is
\* not ok or the request throws
fetchMetadata(uri, ok) == IF ok THEN MetadataUrl(uri) ELSE ""

\* the effect of [tokenURI]: a defined URI starts a fetch
TokenURIEffect(uri) ==
  IF uri # ""
  THEN /\ isLoadingMetadata' = TRUE
       /\ fetches' = Append(fetches, [uri |-> uri, settled |-> FALSE, result |-> ""])
  ELSE UNCHANGED <<isLoadingMetadata, fetches>>

\* isLoading of the hook once the ownerOf and tokenURI reads have settled
isLoading == isLoadingMetadata

NFTInit ==
  /\ FormsQuiet /\ WalletQuiet /\ PureQuiet /\ CounterQuiet /\ PanelQuiet

outsideNFT == <<lifecycleVars, walletVars, pureVars, counterVars, clipboardEnv, copyInflight,
                modalOpen, clickedWallet, installed, connectors, log, userActs>>

\* the tokenURI read returns another value (undefined while a new token id
\* is being read): the effect runs again and nothing cancels earlier fetches
TokenURIChanges(uri) ==
  /\ uri # tokenURI
  /\ uri # "" => Len(fetches) < MaxFetches
  /\ tokenURI' = uri
  /\ TokenURIEffect(uri)
  /\ UNCHANGED <<outsideNFT, metadata>>

\* one fetch completes: .then(setMetadata), .finally(setIsLoadingMetadata(false))
FetchSettles(i, ok) ==
  /\ i \in DOMAIN fetches /\ ~fetches[i].settled
  /\ metadata' = fetchMetadata(fetches[i].uri, ok)
  /\ isLoadingMetadata' = FALSE
  /\ fetches' = [fetches EXCEPT ![i] = [uri |-> fetches[i].uri, settled |-> TRUE,
                                        result |-> fetchMetadata(fetches[i].uri, ok)]]
  /\ UNCHANGED <<outsideNFT, tokenURI>>

NFTNext ==
  \/ \E uri \in TokenURIs \cup {""} : TokenURIChanges(uri)
  \/ \E i \in 1..MaxFetches, ok \in BOOLEAN : FetchSettles(i, ok)

SpecNFT == NFTInit /\ [][NFTNext]_vars

----------------------------------------------------------------------------
(* Properties                                                              *)

MinOf(S) == CHOOSE x \in S : \A y \in S : x <= y
MaxOf(S) == CHOOSE m \in S : \A k \in S : k <= m

\* positions of the history holding entries of one kind
SubmittedAt(h) == { i \in DOMAIN log : log[i].op = "loading" /\ log[i].id = h }
ConfirmedAt(h) ==
  { i \in DOMAIN log :
      log[i].op = "success" /\ log[i].title = "Transfer Successful!" /\ log[i].ref = h }
DismissAt(h) == { i \in DOMAIN log : log[i].op = "dismiss" /\ log[i].id = h }
CallAt == { i \in DOMAIN log : log[i].op = "call" }
RejectedAt == { i \in DOMAIN log : log[i].op = "error" /\ log[i].title = "Transaction Rejected" }

\* C1: for every native transfer accepted with hash h, exactly one submitted
\* notification keyed by h is ever shown, at most one confirmed notification
\* for h is ever shown (exactly one once the receipt is there), whatever the
\* number of re-renders, and the submitted one is dismissed before the
\* confirmed one is shown.
C1_OneSubmittedOneConfirmed ==
  \A h \in 1..issued :
    /\ Cardinality(SubmittedAt(h)) = 1
    /\ Cardinality(ConfirmedAt(h)) <= 1
    /\ (rcptStatus[h] = "success" => Cardinality(ConfirmedAt(h)) = 1)
    /\ \A c \in ConfirmedAt(h) :
         \E d \in DismissAt(h) : d < c /\ \E s \in SubmittedAt(h) : s < d

\* C2: while the last submission stands rejected with a message containing
\* 'User rejected the request', the last 'Transaction Rejected' notification
\* carries the rejection sentence and follows every chain client call, the
\* chain client has returned no hash for the attempt, no hash was recorded
\* for it (every recorded hash has its submitted notification before the
\* last call) and no receipt is being waited for.
C2_UserRejectionReported ==
  (mutStatus = "error" /\ Includes(mutError.message, T_UserRejectedRequest)) =>
    /\ RejectedAt # {}
    /\ CallAt # {}
    /\ log[MaxOf(RejectedAt)].desc = S_Rejected
    /\ MaxOf(CallAt) < MaxOf(RejectedAt)
    /\ \A i \in RejectedAt \cup CallAt :
         i # MaxOf(RejectedAt) => i <= MaxOf(CallAt)
    /\ mutData = NoHash
    /\ txHash # NoHash =>
         \E s \in SubmittedAt(txHash) : s < MaxOf(CallAt)
    /\ \A h \in Hashes : rcptStatus[h] # "loading"
    /\ ~IsConfirming(txHash, rcptStatus)

\* a second attempt rejected by the user after a first one was confirmed
C2_Witness ==
  /\ mutStatus = "error" /\ mutError = ErrorOf(MsgUserRejected)
  /\ txHash # NoHash
  /\ RejectedAt # {}

\* C5: every failure notification shown for an attempt whose confirmation
\* failed with 'execution reverted: reason="Counter: underflow"' carries a
\* classified message containing the revert reason as given, 'Counter: underflow'.
C5_RevertReasonVerbatim ==
  \A i \in DOMAIN log :
    (/\ log[i].op = "error" /\ log[i].title = "Transfer Failed"
     /\ rcptError[log[i].ref] = ErrorOf(MsgRevertUnderflow))
      => Includes(log[i].desc, ReasonUnderflow)

\* positions of the notifications and callbacks of useContractWrite.write
WriteSubmittedAt ==
  { i \in DOMAIN log :
      \/ log[i].op = "success" /\ log[i].title = "Transaction submitted!"
      \/ log[i].op = "cb" /\ log[i].title = "onSuccess" }
WriteErrorAt(message) ==
  { i \in DOMAIN log : log[i].op = "error" /\ log[i].desc = message }
OnErrorAt == { i \in DOMAIN log : log[i].op = "cb" /\ log[i].title = "onError" }

\* C3: in useContractWrite.write the submitted notification and onSuccess
\* occur only with a transaction hash the chain client has returned, which is
\* the hash the hook has recorded; and while the last submission stands
\* rejected or failed, an error notification with the classified message and
\* an onError call follow the last chain client call, and no submitted
\* notification or onSuccess call does.
C3_SubmittedOnlyAfterAccepted ==
  /\ \A i \in WriteSubmittedAt : log[i].ref \in 1..issued
  /\ WriteSubmittedAt # {} => txHash \in 1..issued
  /\ mutStatus = "error" =>
       /\ \E i \in WriteErrorAt(parseWeb3Error(mutError)) : i > MaxOf(CallAt)
       /\ \E i \in OnErrorAt : i > MaxOf(CallAt)
       /\ \A i \in WriteSubmittedAt : i < MaxOf(CallAt)

\* C4: once the chain client has accepted a write and returned its hash, the
\* hook has recorded that hash and waits for (or holds) its receipt, and once
\* the transaction is included the confirmed notification and the
\* onConfirmed call for that hash are in the history.
C4_AcceptedWriteIsAwaited ==
  mutStatus = "success" =>
    /\ txHash = mutData
    /\ rcptStatus[mutData] # "none"
    /\ rcptStatus[mutData] = "success" =>
         \E i \in DOMAIN log :
           log[i].op = "cb" /\ log[i].title = "onConfirmed" /\ log[i].ref = mutData

\* an amount that is not a positive number of the decimal system: empty, or
\* converting to zero or to a negative number of base units
AmountInvalid(a) ==
  \/ a = Empty
  \/ parseTokenAmount(a, DefaultDecimals) = <<"0">>
  \/ parseTokenAmount(a, DefaultDecimals)[1] = "-"

\* a step of handleSubmit: the first entry it adds to the history is a chain
\* client call or one of the validation notifications
IsValidationToast(e) ==
  e.op = "error"
    /\ e.title \in {"Invalid recipient address", "Invalid token address", "Invalid amount"}
IsSubmitStep ==
  /\ Len(log') > Len(log)
  /\ log'[Len(log) + 1].op = "call" \/ IsValidationToast(log'[Len(log) + 1])

\* C10: a submit of NativeTransferForm whose recipient is not a valid address
\* or whose amount is invalid calls the chain client not at all, shows exactly
\* one error notification and leaves the form fields and the hook state
\* (hash, pending, confirming) unchanged.
C10_InvalidSubmitHasNoEffect ==
  [][ (IsSubmitStep /\ (~isValidAddress(recipient) \/ AmountInvalid(amount))) =>
        /\ Len(log') = Len(log) + 1
        /\ IsValidationToast(log'[Len(log')])
        /\ UNCHANGED <<recipient, amount, tokenAddress, txHash, mutStatus, mutData,
                       rcptStatus>> ]_vars

\* the session has all that the persist effect asks for
SessionComplete(status, address, chainId, connector) ==
  IsConnected(status) /\ address # Empty /\ chainId # NoChain /\ connector # NoConnector

\* the step in which the teardown started by a user's disconnect completes
\* and the session reaches disconnected
IsTeardownCompletion ==
  teardown = "inflight" /\ teardown' = "none" /\ ~IsConnected(accStatus')

\* the step of useWallet.disconnect
IsDisconnectStep ==
  /\ Len(log') = Len(log) + 1
  /\ log'[Len(log')].op = "call" /\ log'[Len(log')].title = "disconnect"

\* C6: useWallet.disconnect clears the persisted snapshot only after the
\* teardown of the session has completed successfully: a snapshot that holds a
\* connection becomes empty in no step but the one completing the teardown, so
\* while the teardown is in flight or after it failed the snapshot is as before.
C6_ClearedOnlyAfterTeardown ==
  [][ (snapshot # EmptySnapshot /\ snapshot' = EmptySnapshot) => IsTeardownCompletion ]_vars

\* C7: after a user-initiated disconnect, when the session reaches
\* disconnected the persisted snapshot is empty, and it stays empty while the
\* session is not connected, whatever account changes, chain changes and
\* mounts of useWallet components happen during the teardown.
C7_EmptyAfterUserDisconnect ==
  [][ /\ IsTeardownCompletion => snapshot' = EmptySnapshot
      /\ (~IsConnected(accStatus) /\ ~IsConnected(accStatus') /\ snapshot = EmptySnapshot)
           => snapshot' = EmptySnapshot ]_vars

DirectsManualSwitch(e) == e.op = "error" /\ e.desc = S_SwitchManually

\* the step in which a handleSwitchNetwork catches what switchNetwork threw
IsSwitchFailureStep ==
  switching # NoSwitch /\ switching' = NoSwitch /\ switchError' # NoError

\* C9: when the connector of the session does not support switching, what
\* switchNetwork throws differs from what it throws for every other failure,
\* and a caller directs the user to switch manually only in that case.
C9_ManualSwitchOnlyWhenUnsupported ==
  [][ IsSwitchFailureStep =>
        /\ (IsConnected(accStatus) /\ ~accConnector.canSwitch)
             => switchError'.name \notin ({e.name : e \in SwitchFailures} \cup {"Error"})
        /\ DirectsManualSwitch(log'[Len(log')])
             => (IsConnected(accStatus) /\ ~accConnector.canSwitch) ]_vars


\* a count of base units that is strictly positive
IsPositiveUnits(units) == units # <<"0">> /\ units[1] # "-"

\* C11: the chain client is called only with an amount that converts to a
\* strictly positive number of base units: no transfer of 0 base units (the
\* result of parseTokenAmount for an unparseable amount) is ever submitted.
C11_OnlyPositiveAmountsSubmitted ==
  \A i \in DOMAIN log :
    (log[i].op = "call" /\ log[i].title \in {"sendTransactionAsync", "writeContract"})
      => IsPositiveUnits(log[i].desc)


\* the rules of the classifier in the order the claim gives: what a rule
\* looks for in the lower-cased message
RulePatterns ==
  << {P_user_rejected, P_user_denied, P_user_cancelled},
     {P_insufficient_funds, P_insufficient_balance},
     {P_network, P_timeout, P_fetch},
     {P_revert, P_execution_reverted},
     {P_gas},
     {P_invalid_address},
     {P_nonce} >>

\* the rules a message matches
MatchingRules(message) ==
  {i \in DOMAIN RulePatterns : \E p \in RulePatterns[i] : Includes(ToLowerCase(message), p)}

\* whether text is a sentence of rule i (the revert rule has two: the plain
\* one, and 'Contract error: ' followed by a reason)
IsSentenceOfRule(text, i) ==
  CASE i = 1 -> text = S_Rejected
    [] i = 2 -> text = S_Insufficient
    [] i = 3 -> text = S_Network
    [] i = 4 -> \/ text = S_Reverted
                \/ /\ Len(text) > Len(S_ContractErrorPrefix)
                   /\ SubSeq(text, 1, Len(S_ContractErrorPrefix)) = S_ContractErrorPrefix
    [] i = 5 -> text = S_Gas
    [] i = 6 -> text = S_InvalidAddress
    [] i = 7 -> text = S_Nonce

\* C12: for an Error whose message matches at least one rule, parseWeb3Error
\* returns a sentence of the earliest matching rule in the order user-rejected,
\* insufficient-funds, network, revert, gas, invalid-address, nonce; so revert
\* with network gives the network sentence and revert with gas the revert one.
C12_FirstMatchingRuleWins ==
  (callResult.fn = "parseWeb3Error" /\ callArgs[1].tag = "Error"
     /\ MatchingRules(callArgs[1].message) # {})
    => IsSentenceOfRule(callResult.value, MinOf(MatchingRules(callArgs[1].message)))

\* C12 witness: a message containing both 'revert' and 'network' was
\* classified, and the result is the network sentence
C12_Witness ==
  /\ callResult.fn = "parseWeb3Error" /\ callArgs[1].tag = "Error"
  /\ MatchingRules(callArgs[1].message) = {3, 4}
  /\ callResult.value = S_Network


\* a failure value that is not a string and carries no message text
CarriesNoMessage(error) ==
  \/ error.tag \in {"null", "undefined", "number"}
  \/ error.tag = "object" /\ error.message = <<>>

\* C13: for a failure value that is not a string and carries no message
\* (null, undefined, a number, an object without message) parseWeb3Error
\* returns 'An unexpected error occurred'; for an Error whose message matches
\* no rule it returns the message as given.
C13_GenericSentenceOrVerbatim ==
  callResult.fn = "parseWeb3Error" =>
    /\ CarriesNoMessage(callArgs[1]) => callResult.value = S_Unexpected
    /\ (callArgs[1].tag = "Error" /\ MatchingRules(callArgs[1].message) = {})
         => callResult.value = callArgs[1].message

\* the category the claim gives to a rule of the classifier ("" where it
\* names none: the gas and nonce rules)
CategoryOfRule(i) ==
  CASE i = 1 -> "USER_REJECTED"
    [] i = 2 -> "INSUFFICIENT_FUNDS"
    [] i = 3 -> "NETWORK_ERROR"
    [] i = 4 -> "CONTRACT_ERROR"
    [] i = 6 -> "INVALID_ADDRESS"
    [] OTHER -> ""

\* C14: createWeb3Error gives an Error the category of the classifier rule
\* that decided its message (USER_REJECTED, INSUFFICIENT_FUNDS, NETWORK_ERROR,
\* CONTRACT_ERROR, INVALID_ADDRESS), and UNKNOWN_ERROR only when no rule matched.
C14_CategoryOfMatchedRule ==
  (callResult.fn = "createWeb3Error" /\ callArgs[1].tag = "Error") =>
    LET matching == MatchingRules(callArgs[1].message)
    IN /\ (matching # {} /\ CategoryOfRule(MinOf(matching)) # "")
            => callResult.type = CategoryOfRule(MinOf(matching))
       /\ callResult.type = "UNKNOWN_ERROR" => matching = {}


\* the attempts of the history: hashes with a submitted notification
SubmittedHashes == {h \in Hashes : SubmittedAt(h) # {}}

\* the terminal notifications of hash h in the history
TerminalAt(h) ==
  {i \in DOMAIN log : log[i].op \in {"success", "error"} /\ log[i].ref = h
                        /\ log[i].title \in {"Transfer Successful!", "Transfer Failed"}}

\* C15: attempts are tracked independently: the hook stops waiting for the
\* receipt of a submitted hash (its txHash is another hash) only after that
\* hash got its terminal notification and its submitted notification was
\* dismissed; a later attempt takes neither away from an earlier one.
C15_AttemptsTrackedIndependently ==
  \A h \in SubmittedHashes :
    h # txHash => (TerminalAt(h) # {} /\ DismissAt(h) # {})


\* an attempt of the form is in flight: the wallet has been asked to sign, or
\* the chain client returned a hash whose receipt has not arrived
AttemptInFlight ==
  \/ IsPending(mutStatus)
  \/ mutData # NoHash /\ rcptStatus[mutData] \notin {"success", "error"}

\* C16: the submit control of the form is disabled (isLoading) in every state
\* in which an attempt is in flight: pending signature, submitted, confirming,
\* with no gap after the chain client accepted the request.
C16_SubmitDisabledWhileInFlight == AttemptInFlight => FormLoading


\* index of the last chain client call in the history (0 when there is none)
LastCallAt == IF CallAt = {} THEN 0 ELSE MaxOf(CallAt)

\* the error notifications about failures of attempts (not those of the
\* validation of the fields)
FailureToastAt ==
  {i \in DOMAIN log : log[i].op = "error" /\ ~IsValidationToast(log[i])}

\* C17: every failed attempt surfaces exactly one error notification: after a
\* rejected or failed submission there is exactly one since the call, and a
\* hash whose confirmation failed has exactly one, whatever re-renders follow.
C17_OneErrorNotificationPerFailure ==
  /\ mutStatus = "error" =>
       Cardinality({i \in FailureToastAt : i > LastCallAt /\ log[i].ref = NoHash}) = 1
  /\ \A h \in Hashes :
       rcptStatus[h] = "error" => Cardinality({i \in FailureToastAt : log[i].ref = h}) = 1

\* the notifications and the callback that report a terminal state of a hash
IsConfirmedReport(e) ==
  \/ e.op = "success" /\ e.title \in {"Transfer Successful!", "Transaction Confirmed!"}
  \/ e.op = "cb" /\ e.title = "onConfirmed"
IsFailedReport(e) ==
  e.op = "error" /\ e.title \in {"Transfer Failed", "Transaction Failed", "Confirmation Failed"}

\* hashes reported as confirmed / as failed so far
ConfirmedHashes ==
  {log[i].ref : i \in {j \in DOMAIN log : IsConfirmedReport(log[j])}} \ {NoHash}
FailedHashes ==
  {log[i].ref : i \in {j \in DOMAIN log : IsFailedReport(log[j])}} \ {NoHash}

UsedStartChars ==
  IF callResult.fn = "formatAddress" THEN callArgs[2]
  ELSE IF callResult.fn = "formatTxHash" THEN TxHashStartChars ELSE DefaultStartChars
UsedEndChars ==
  IF callResult.fn = "formatAddress" THEN callArgs[3]
  ELSE IF callResult.fn = "formatTxHash" THEN TxHashEndChars ELSE DefaultEndChars

\* '0x1234...7890'
AddrValidShortened ==
  <<"0", "x", "1", "2", "3", "4", ".", ".", ".", "7", "8", "9", "0">>

\* C20: a format call returns '' for empty or undefined input, the input for
\* an input shorter than head + tail, and otherwise the first head characters,
\* '...' and the last tail characters, for every head and tail; the
\* 42-character address formatted with the defaults gives '0x1234...7890'
C20_FormatAddressShortens ==
  callResult.fn \in {"formatAddress", "formatAddress()", "formatTxHash"} =>
    LET s == callArgs[1].text
        h == UsedStartChars
        t == UsedEndChars
    IN /\ IF callArgs[1].tag = "undefined" \/ s = <<>> THEN callResult.value = <<>>
          ELSE IF Len(s) < h + t THEN callResult.value = s
          ELSE callResult.value
                 = SubSeq(s, 1, h) \o Dots \o SubSeq(s, Len(s) - t + 1, Len(s))
       /\ (callResult.fn = "formatAddress()" /\ s = AddrValid)
            => callResult.value = AddrValidShortened

\* the sixteen hex digits in both cases
HexDigitSet ==
  {"0", "1", "2", "3", "4", "5", "6", "7", "8", "9",
   "a", "b", "c", "d", "e", "f", "A", "B", "C", "D", "E", "F"}

\* s is '0x' followed by exactly n hex digits
IsZeroXHex(s, n) ==
  /\ Len(s) = n + 2
  /\ SubSeq(s, 1, 2) = <<"0", "x">>
  /\ {s[i] : i \in 3..Len(s)} \subseteq HexDigitSet

\* C21: isValidAddress is true exactly for '0x' and 40 hex digits of either
\* case, isValidTxHash exactly for '0x' and 64 hex digits
C21_ValidatorsMatchShape ==
  /\ callResult.fn = "isValidAddress"
       => callResult.value = IsZeroXHex(callArgs[1], 40)
  /\ callResult.fn = "isValidTxHash"
       => callResult.value = IsZeroXHex(callArgs[1], 64)

\* C21 witness: a mixed-case address was accepted
C21_Witness ==
  callResult.fn = "isValidAddress" /\ callArgs[1] = AddrSecond /\ callResult.value = TRUE

\* '1500000000000000000'
OnePointFiveEther ==
  <<"1", "5", "0", "0", "0", "0", "0", "0", "0", "0", "0", "0", "0", "0", "0", "0", "0",
    "0", "0">>

\* the integer with the decimal digits ds and the given sign, written without
\* leading zeros
RECURSIVE DropLeadingZeros(_)
DropLeadingZeros(ds) ==
  IF ds # <<>> /\ Head(ds) = "0" THEN DropLeadingZeros(Tail(ds)) ELSE ds
IntegerText(negative, ds) ==
  IF DropLeadingZeros(ds) = <<>> THEN <<"0">>
  ELSE (IF negative THEN <<"-">> ELSE <<>>) \o DropLeadingZeros(ds)

\* the case of the amount string a call ran with
CaseOfCall == CHOOSE c \in AmountCases : c.text = callArgs[1]

\* C22: parseTokenAmount returns 0 for a string that is no decimal number and
\* value * 10^decimals for a decimal number with at most decimals fraction
\* digits; '1.5' with 18 decimals gives 1500000000000000000, 'abc' gives 0
C22_ParseTokenAmountScales ==
  callResult.fn = "parseTokenAmount" =>
    LET c == CaseOfCall
        d == callArgs[2]
        f == IF c.frac # <<>> /\ \A i \in DOMAIN c.frac : c.frac[i] = "0" THEN <<>> ELSE c.frac
    IN /\ ~c.decimal => callResult.value = <<"0">>
       /\ (c.decimal /\ Len(f) <= d)
            => callResult.value
                 = IntegerText(c.negative, c.int \o f \o [i \in 1..(d - Len(f)) |-> "0"])
       /\ (c.text = AmtOnePointFive /\ d = 18) => callResult.value = OnePointFiveEther
       /\ c.text = AmtLetters => callResult.value = <<"0">>

\* C22 witness: '1.5' was parsed with 18 decimals
C22_Witness ==
  /\ callResult.fn = "parseTokenAmount"
  /\ callArgs = <<AmtOnePointFive, 18>>
  /\ callResult.value = OnePointFiveEther

\* q is floor(n * percent / 100)
IsFloorOfPercent(q, n, percent) == q * 100 <= n * percent /\ n * percent < (q + 1) * 100

\* C23: useGasPrices returns standard = p, slow = floor(p * 80 / 100) and
\* fast = floor(p * 120 / 100) for the current gas price p, so that
\* slow <= standard <= fast, and three zeros when no gas price is available
C23_GasPricesByPercent ==
  callResult.fn = "useGasPrices" =>
    LET slow == callResult.value[1]
        standard == callResult.value[2]
        fast == callResult.value[3]
    IN IF callArgs[1].tag = "undefined"
         THEN slow = 0 /\ standard = 0 /\ fast = 0
         ELSE /\ standard = callArgs[1].n
              /\ IsFloorOfPercent(slow, callArgs[1].n, 80)
              /\ IsFloorOfPercent(fast, callArgs[1].n, 120)
              /\ slow <= standard /\ standard <= fast

\* C23 witness: a gas price of 7 wei gave slow 5, standard 7 and fast 8
C23_Witness ==
  /\ callResult.fn = "useGasPrices"
  /\ callArgs[1] = GasPriceData(7)
  /\ callResult.value = <<5, 7, 8>>

\* number of entries of the history with the given op and title
CountLog(op, title) ==
  Cardinality({i \in DOMAIN log : log[i].op = op /\ log[i].title = title})

\* number of runs of the fallback tier that ended with the given outcomes
CountExec(outcomes) ==
  Cardinality({i \in DOMAIN log : /\ log[i].op = "call" /\ log[i].title = "execCommand"
                                  /\ log[i].desc[1] \in outcomes})

\* C24: the native tier is used exactly when the clipboard API is present in a
\* secure context; the fallback runs exactly when the native tier is not
\* usable or its write failed; every copy that has finished ended in one
\* notification: success when a tier succeeded, failure when the fallback failed
C24_TwoTierCopyAlwaysNotifies ==
  LET copies   == CountLog("call", "copyToClipboard")
      native   == CountLog("call", "writeText")
      failed   == CountLog("warn", "Clipboard API failed, using fallback:")
      fallback == CountExec({"true", "false", "throws"})
      okToasts == CountLog("success", "Address copied to clipboard")
      koToasts == CountLog("error", "Failed to copy address")
      usable   == clipboardEnv.api /\ clipboardEnv.secure
  IN /\ native = (IF usable THEN copies ELSE 0)
     /\ fallback = (IF usable THEN failed ELSE copies)
     /\ okToasts = (native - failed - copyInflight) + CountExec({"true"})
     /\ koToasts = CountExec({"false", "throws"})
     /\ okToasts + koToasts + copyInflight = copies

\* C24 witness: a write of the native tier failed, the fallback succeeded for
\* one copy and failed for another
C24_Witness ==
  /\ CountLog("warn", "Clipboard API failed, using fallback:") >= 2
  /\ CountExec({"true"}) >= 1 /\ CountExec({"throws"}) >= 1
  /\ copyInflight = 0

AppendedByStep == SubSeq(log', Len(log) + 1, Len(log'))

\* C26: a step in which an increment or decrement is requested makes no
\* write call and shows exactly one 'Wrong Network' notification when the
\* chain of the wallet is not Sepolia, and makes its write call when it is;
\* no other step makes a write call
C26_WriteOnlyOnRequiredChain ==
  [][LET new   == AppendedByStep
         calls == {i \in DOMAIN new : new[i].op = "call"}
         wrong == {i \in DOMAIN new : new[i].op = "error" /\ new[i].title = "Wrong Network"}
     IN IF userActs' # userActs
          THEN IF accChain = 11155111
                 THEN Cardinality(calls) = 1 /\ wrong = {}
                 ELSE calls = {} /\ Cardinality(wrong) = 1
                      /\ mutStatus' = mutStatus
          ELSE calls = {} /\ wrong = {}]_vars

\* C26 witness: a request on another chain was refused and a request on
\* Sepolia was written
C26_Witness ==
  /\ \E i \in DOMAIN log : log[i].op = "error" /\ log[i].title = "Wrong Network"
  /\ \E i \in DOMAIN log : log[i].op = "call" /\ log[i].title = "writeContractAsync"

\* the step shows the 'Connected successfully!' notification
ShowsConnected ==
  \E i \in DOMAIN AppendedByStep :
    AppendedByStep[i].op = "success" /\ AppendedByStep[i].title = "Connected successfully!"

\* C27: the modal is closed and 'Connected successfully!' is shown only by a
\* step that leaves the connection established, and a step in which the
\* request is rejected or fails finds the modal open, leaves it open and has
\* no success notification behind it
C27_SuccessOnlyOnceConnected ==
  [][/\ (ShowsConnected \/ (modalOpen /\ ~modalOpen')) => accStatus' = "connected"
     /\ (accStatus = "connecting" /\ accStatus' = "disconnected")
          => (modalOpen /\ modalOpen' /\ CountLog("success", "Connected successfully!") = 0)]_vars

\* the connector whose name is the name of the wallet option
ConnectorOfWallet(walletId) ==
  LET o == CHOOSE w \in WalletOptions : w.id = walletId
  IN CHOOSE i \in DOMAIN connectors : connectors[i].name = o.name

\* C28: a click on an installed wallet starts a connection with the connector
\* of that wallet; a click on a wallet that is not installed opens its
\* download page and starts no connection
C28_ClickedWalletDecidesConnector ==
  [][(userActs' # userActs /\ modalOpen) =>
       LET new   == AppendedByStep
           calls == {i \in DOMAIN new : new[i].op = "call" /\ new[i].title = "connect"}
           opens == {i \in DOMAIN new : new[i].op = "open"}
           o     == CHOOSE w \in WalletOptions : w.id = clickedWallet'
       IN IF clickedWallet' \in installed
            THEN /\ Cardinality(calls) = 1
                 /\ \A i \in calls : new[i].desc[1] = connectors[ConnectorOfWallet(o.id)].id
            ELSE /\ calls = {}
                 /\ Cardinality(opens) = 1
                 /\ \A i \in opens : new[i].desc[1] = o.downloadUrl]_vars

\* C29: in useNFT, once every fetch has completed the metadata held is the
\* result of the fetch started for the most recent tokenURI, and isLoading is
\* never false while the fetch for the most recent tokenURI is in flight
LatestFetch == fetches[Len(fetches)]
AllSettled == \A i \in DOMAIN fetches : fetches[i].settled
C29_LatestTokenURIWins ==
  (fetches # <<>> /\ tokenURI = LatestFetch.uri) =>
     /\ AllSettled => metadata = LatestFetch.result
     /\ ~LatestFetch.settled => isLoading

\* C30: NativeTransferForm and TokenTransferForm clear recipient and amount
\* exactly in the step in which the chain client accepts a submission; a
\* submit that fails validation, a rejection and a failed submission leave
\* both fields as they are
\* the step is a click on the submit control: handleSubmit appends a
\* validation error or the call of the chain client before anything else
SubmitTitles == {"Invalid recipient address", "Invalid token address", "Invalid amount",
                 "sendTransactionAsync", "writeContract"}
SubmitClicked ==
  /\ userActs' # userActs
  /\ AppendedByStep # <<>>
  /\ AppendedByStep[1].title \in SubmitTitles
ClientAccepts == issued' # issued
C30_FieldsClearedExactlyOnAcceptance ==
  [][ /\ ClientAccepts => (recipient' = Empty /\ amount' = Empty)
      /\ (~ClientAccepts /\ (userActs' = userActs \/ SubmitClicked))
            => UNCHANGED <<recipient, amount>> ]_vars

====
